---- MODULE Spec2Model ----
(***************************************************************************)
(* Model of dchf12/mcp, mcp-google-calendar.                               *)
(*                                                                         *)
(* Part 1: gcal.RateLimiter (internal/infrastructure/gcal/rate_limiter.go) *)
(*   a golang.org/x/time/rate token bucket plus a cenkalti/backoff/v5      *)
(*   exponential backoff, called concurrently by several goroutines.       *)
(* Part 2: gcal.GoogleCalendarAdapter and googleCalendarService            *)
(*   (internal/infrastructure/gcal/google_calendar_adapter.go).            *)
(*                                                                         *)
(* Time is discrete; one tick is 100ms (the backoff's InitialInterval).    *)
(* Tokens are counted in units of 1/Second of a token, so that the bucket  *)
(* gains QPS units per tick and one request costs Second units.            *)
(* rate.Limiter refills lazily (advance(t) from its fields tokens, last);  *)
(* the model keeps the same bucket advanced to the current instant, and    *)
(* every instant (deadline, timer, lastEvent) as the time left until it,   *)
(* so that the clock itself needs no variable.                             *)
(***************************************************************************)
EXTENDS Integers, Sequences, FiniteSets, TLC

----------------------------------------------------------------------------
(* Program constants *)

\* rate_limiter.go:21  QPS = 1
QPS == 1
\* rate_limiter.go:34  rate.NewLimiter(rate.Limit(QPS), 10)
Burst == 10
\* rate_limiter.go:38  InitialInterval = 100 * time.Millisecond  (= one tick)
InitialInterval == 1
\* time.Second in ticks
Second == 10 * InitialInterval
\* rate_limiter.go:39  MaxInterval = 10 * time.Second
MaxInterval == 10 * Second
\* rate_limiter.go:40  Multiplier = 2.0
Multiplier == 2
\* rate_limiter.go:41  RandomizationFactor = 0.2, as the divisor 1/0.2
RandomizationDiv == 5

(* Bounds of the model *)
\* longest context.WithTimeout duration, in ticks
MaxTimeout == 2
\* ticks one backoff.Ticker delivers
MaxTicks == 2
\* ticks a run lasts in which admissions are counted
MaxWindow == 25
\* tokens the bucket may owe to reservations when one more Wait call begins
MaxDebt == 2
\* calls made to the GoogleCalendarAdapter in one run
MaxCalls == 1

\* the goroutines that share one RateLimiter; all of them call Allow and Reset
Procs == {"g1", "g2"}
\* the goroutines that also call the blocking Wait
Waiters == {"g2"}
\* the goroutines that also call Reset
Resetters == {"g1"}
\* room for the ExponentialBackOff objects alive at one time: the one
\* RateLimiter.backoff points to, and one per ticker
Slots == 0..Cardinality(Waiters)
\* context.WithTimeout durations the callers use, in ticks
Timeouts == 1..MaxTimeout
\* no deadline (context.Background, context.WithCancel)
NoDeadline == -1
\* rate.InfDuration
InfDuration == 1000000
\* a time left that says the instant is over
Past == -1

Min(a, b) == IF a < b THEN a ELSE b
Max(a, b) == IF a > b THEN a ELSE b

----------------------------------------------------------------------------
(* Errors: pkg/errors *)

\* Message is modelled as the sequence of the parts that make it up (the
\* format's text and the values fmt.Sprintf puts into it); cause is Err
NoErr == [type |-> "nil", op |-> "", msg |-> <<>>, code |-> 0, cause |-> "nil"]

NewAPIError(operation, message, code, err) ==
    [type |-> "APIError", op |-> operation, msg |-> message, code |-> code, cause |-> err]

\* ValidationError has Field where APIError has Operation, and no Code
NewValidationError(field, message, err) ==
    [type |-> "ValidationError", op |-> field, msg |-> message, code |-> 0, cause |-> err]

\* google_calendar_adapter.go:240
RateLimitExceededError == NewAPIError("rate_limit", <<"rate limit exceeded">>, 429, "nil")

\* the error Wait builds at rate_limiter.go:58-63 and 73-78; ctxErr is ctx.Err()
WaitCancelError(ctxErr) == NewAPIError("rate_limit", <<"context canceled">>, 429, ctxErr)

\* what a caller can switch on: the Go type, the operation/field and the code
Kind(e) == <<e.type, e.op, e.code>>

----------------------------------------------------------------------------
VARIABLES
    limTokens,     \* rate.Limiter.tokens (units of 1/Second token), advanced to now
    limLastEvent,  \* time left until rate.Limiter.lastEvent (0 if it is past)
    backoff,       \* RateLimiter.backoff: the slot of the ExponentialBackOff it
                   \* points to
    curInt,        \* ExponentialBackOff.currentInterval of the object in each
                   \* slot (0 in a free slot)
    pc,            \* position of each calling goroutine
    ctx,           \* the context each goroutine passed to its Wait call in flight
    resAt,         \* time left until Reservation.timeToAct of a goroutine sleeping
                   \* in limiter.Wait; Past once that instant is over
    tk,            \* the backoff.Ticker (and its goroutine) of each Wait call
    ret,           \* the result of the Wait call that returned at this instant
    spendable,     \* observer: what a reference bucket holds that starts with
                   \* Burst tokens, gains QPS units per tick up to Burst, and
                   \* pays one token for every admission (left: the ticks
                   \* the run still lasts)
    allowLog,      \* observer: results of the Allow calls made so far, kept while
                   \* no time has passed and no Wait was called
    mon,           \* observer: a Reset on an empty bucket, then an Allow at once
    apiRequestsTotal,     \* metrics.go: counter by operation
    apiErrorsTotal,       \* metrics.go: counter by operation and error type
    rateLimitHitsTotal,   \* metrics.go: counter
    apiResponseDuration,  \* metrics.go: number of observations by operation
    lastCall,      \* the last call made to the GoogleCalendarAdapter: its
                   \* arguments, the requests it sent to the Google API, the
                   \* metrics it recorded, the error and the value it returned
    mem,           \* the strings in the variables that the pointers of the
                   \* last call refer to, by address
    te,            \* the crypto.TokenEncryption of the process (its passphrase)
    encrypted,     \* the bytes a caller of Encrypt holds: the plaintext it
                   \* passed, what Encrypt returned, and what was done to the
                   \* returned bytes since
    decrypted,     \* what Decrypt returned for those bytes
    disk,          \* the file system: whether the configuration directory
                   \* exists, and the file at TokenFileRepo.tokenPath
    repoCall,      \* the last call of TokenFileRepo.Save or Load: its argument,
                   \* the faults it met, the file before it, and its results
    envCall,       \* config.GetCredentialsPath: the environment, the files
                   \* there are, and what the last call returned
    authFlow,      \* OAuthConfig.AuthFlow: where the call stands, what it has
                   \* done so far, and what it returned
    ucCall,        \* CreateEventUseCase.Execute: the last call, the calls it
                   \* made to its repository, and what it returned
    savers,        \* the goroutines that are inside TokenFileRepo.Save
    cb,            \* startLocalServer: the callback server, its channels and
                   \* its goroutines
    rpc            \* the calculator server: its initialized flag, the last
                   \* request it read and the response it wrote

limVars == <<limTokens, limLastEvent>>
boVars == <<backoff, curInt>>
obsVars == <<allowLog, mon>>

rlVars == <<limVars, boVars, pc, ctx, resAt, tk, ret, spendable, obsVars>>

metricVars == <<apiRequestsTotal, apiErrorsTotal, rateLimitHitsTotal, apiResponseDuration>>
storeVars == <<te, encrypted, decrypted, disk, repoCall>>
appVars == <<envCall, authFlow, ucCall, savers, cb, rpc>>
gwVars == <<metricVars, lastCall, mem, storeVars, appVars>>

vars == <<rlVars, gwVars>>

----------------------------------------------------------------------------
(* golang.org/x/time/rate as RateLimiter uses it.  Every Limiter method    *)
(* runs under the Limiter's own mutex, so each is one atomic step.         *)

\* one request costs one token
OneToken == Second

\* Limit.tokensFromDuration: tokens gained in d ticks
TokensFromDuration(d) == d * QPS

\* Limit.durationFromTokens: ticks needed to gain u units, rounded up
DurationFromTokens(u) == (u + QPS - 1) \div QPS

\* Limiter.advance: the tokens available once `elapsed' ticks have passed;
\* the bucket holds at most Burst
Advance(tokens, elapsed) ==
    Min(Burst * OneToken, tokens + TokensFromDuration(elapsed))

\* a bucket that hands out a token without taking it out
ConsumeNothing(tok) == tok

\* tokens left after taking one token out of a bucket holding tok
Consume(tok) == tok - OneToken

\* a reserveN that grants whatever the wait (Reserve where Allow is meant)
ReserveAlways(tokens, maxFutureReserve) ==
    [tokens |-> tokens - OneToken, ok |-> TRUE,
     delay |-> IF tokens < OneToken THEN DurationFromTokens(OneToken - tokens) ELSE 0]

\* Limiter.reserveN(now, 1, maxFutureReserve): whether the reservation is
\* granted, the tokens it leaves and the delay until its timeToAct
ReserveN(tokens, maxFutureReserve) ==
    LET tok  == Consume(tokens)
        wait == IF tok < 0 THEN DurationFromTokens(-tok) ELSE 0
    IN  [tokens |-> tok, ok |-> wait <= maxFutureReserve, delay |-> wait]

\* Reservation.CancelAt(now) of a one-token reservation whose timeToAct is
\* `delay' ticks ahead: the limiter state <<tokens, lastEvent>> it leaves
CancelAt(tokens, lastEvent, delay) ==
    LET restore == OneToken - TokensFromDuration(lastEvent - delay)
        prev    == delay - DurationFromTokens(OneToken)
    IN  IF delay = Past \/ restore <= 0
        THEN <<tokens, lastEvent>>
        ELSE <<Min(Burst * OneToken, tokens + restore),
               IF delay = lastEvent /\ prev >= 0 THEN prev ELSE lastEvent>>

----------------------------------------------------------------------------
(* context.Context *)

Background == [cancelable |-> FALSE, deadline |-> NoDeadline, cancelled |-> FALSE, pre |-> FALSE]

\* a context that reports itself cancelled whatever its state
CtxErrCanceled(p) == "canceled"

\* ctx.Err() of goroutine p's context at the current instant; deadline is the
\* time left until the deadline
CtxErr(p) ==
    IF ctx[p].cancelled THEN "canceled"
    ELSE IF ctx[p].deadline = 0 THEN "deadline"
    ELSE "nil"

\* the contexts a caller may pass to Wait: Background, WithCancel (live or
\* already cancelled; pre notes the latter), WithTimeout(d)
Contexts ==
    {Background}
    \cup {[cancelable |-> TRUE, deadline |-> NoDeadline, cancelled |-> c, pre |-> c] : c \in BOOLEAN}
    \cup {[cancelable |-> TRUE, deadline |-> d, cancelled |-> FALSE, pre |-> FALSE] : d \in Timeouts}

\* deadline.Sub(now), or InfDuration without a deadline (rate.Limiter.wait)
WaitLimit(p) ==
    IF ctx[p].deadline = NoDeadline THEN InfDuration ELSE ctx[p].deadline

\* one tick later
CtxTick(c) == IF c.deadline > 0 THEN [c EXCEPT !.deadline = c.deadline - 1] ELSE c

----------------------------------------------------------------------------
(* cenkalti/backoff/v5 ExponentialBackOff and Ticker *)

\* st: what the ticker goroutine is doing; b: its BackOff object; rd: the
\* currentInterval NextBackOff loaded; at: time left on its timer; n: ticks
\* delivered; stop: Stop() was called
NoTicker == [b |-> 0, st |-> "none", rd |-> 0, at |-> 0, n |-> 0, stop |-> FALSE]

\* ExponentialBackOff.incrementCurrentInterval
IncrementCurrentInterval(cur) ==
    IF cur * Multiplier >= MaxInterval THEN MaxInterval ELSE cur * Multiplier

\* getRandomValueFromInterval: the values the jittered interval can take
RandomValuesFromInterval(cur) ==
    (cur - cur \div RandomizationDiv)..(cur + cur \div RandomizationDiv)

\* Ticker.Stop as seen by the ticker goroutine: it exits at once unless it is
\* inside NextBackOff, which it finishes first
StopTicker(t) ==
    IF t.st \in {"nb_read", "nb_write"} THEN [t EXCEPT !.stop = TRUE] ELSE NoTicker

\* does a ticker (one running, or one NewTicker is building) hold the
\* object in slot s?
HeldByTicker(s) ==
    \E p \in Procs : tk[p].b = s /\ (tk[p].st # "none" \/ pc[p] = "tickreset")

\* the heap once the garbage collector has run: an ExponentialBackOff that
\* neither RateLimiter.backoff (bo) nor a ticker refers to is gone
Collect(heap, bo) ==
    [i \in Slots |-> IF i = bo \/ HeldByTicker(i) THEN heap[i] ELSE 0]

\* where backoff.NewExponentialBackOff() puts the object that is about to
\* replace r.backoff: the first slot that no ticker holds
NewExponentialBackOff ==
    CHOOSE i \in Slots : ~HeldByTicker(i) /\ \A j \in Slots : ~HeldByTicker(j) => i <= j

\* one tick later
TickerTick(t) == IF t.at > 0 THEN [t EXCEPT !.at = t.at - 1] ELSE t

----------------------------------------------------------------------------
(* domain.Event and Event.Validate, internal/domain/calendar.go *)

\* a nil pointer (to a domain.Event, to a string) and the nil result of a call
Nil == [nil |-> TRUE]

\* a pointer to the string variable at address a
Ptr(a) == [nil |-> FALSE, addr |-> a]

\* a Go slice: nil, or made with the elements s
NilSlice == [nil |-> TRUE, elems |-> <<>>]
Slice(s) == [nil |-> FALSE, elems |-> s]

\* sequences over S of at most n elements
RECURSIVE SeqUpTo(_, _)
SeqUpTo(S, n) ==
    IF n = 0 THEN {<<>>}
    ELSE SeqUpTo(S, n - 1) \cup
         {Append(q, x) : q \in {r \in SeqUpTo(S, n - 1) : Len(r) = n - 1}, x \in S}

Titles == {"", "Standup"}

\* DateTime strings: three RFC3339 timestamps, the last two of them the same
\* instant, and one string that is not RFC3339
Timestamps == {"2024-01-01T09:00:00Z", "2024-01-01T10:00:00Z",
               "2024-01-01T11:00:00+01:00", "tomorrow"}

\* domain.DateTime values: nothing set, only Date, only DateTime
DateTimes ==
    {[dateTime |-> "", date |-> "", timeZone |-> ""],
     [dateTime |-> "", date |-> "2024-01-01", timeZone |-> ""]}
    \cup {[dateTime |-> t, date |-> "", timeZone |-> ""] : t \in Timestamps}

\* the string variables that pointers of a CreateEvent call can point to: the
\* caller's (ev.Location points to it) and the Location field of the
\* calendar.Event that Events.Insert returned
AddrEv == "*ev.Location"
AddrCreated == "created.Location"

\* a domain.Event (calendar.go:17-25)
Event(id, title, description, start, end, location, attendees) ==
    [nil |-> FALSE, id |-> id, title |-> title, description |-> description,
     start |-> start, end |-> end, location |-> location, attendees |-> attendees]

\* the events the gateway is called with: any title and times, no location,
\* no attendees
Events ==
    {Event("", t, "", s, e, Nil, NilSlice) : t \in Titles, s \in DateTimes, e \in DateTimes}

\* time.Parse(time.RFC3339, s): the error, and the instant in minutes of the
\* day (UTC)
ParseRFC3339(s) ==
    IF s = "2024-01-01T09:00:00Z" THEN [err |-> "nil", t |-> 540]
    ELSE IF s = "2024-01-01T10:00:00Z" THEN [err |-> "nil", t |-> 600]
    ELSE IF s = "2024-01-01T11:00:00+01:00" THEN [err |-> "nil", t |-> 600]
    ELSE [err |-> "cannot parse", t |-> 0]

\* Event.validateDateTime, calendar.go:57-78: the error text, "nil" for none
ValidateDateTime(e) ==
    IF e.start.dateTime = "" /\ e.start.date = ""
    THEN "event start date/time is required"
    ELSE IF e.end.dateTime = "" /\ e.end.date = ""
    THEN "event end date/time is required"
    ELSE IF e.start.dateTime # "" /\ e.end.dateTime # ""
    THEN LET startTime == ParseRFC3339(e.start.dateTime)
             endTime == ParseRFC3339(e.end.dateTime)
         IN  IF startTime.err # "nil" THEN "invalid start datetime format"
             ELSE IF endTime.err # "nil" THEN "invalid end datetime format"
             ELSE IF endTime.t < startTime.t
                  THEN "event end time cannot be before start time"
             ELSE "nil"
    ELSE "nil"

\* Event.Validate, calendar.go:46-54
Validate(e) ==
    IF e.title = "" THEN "event title is required" ELSE ValidateDateTime(e)

----------------------------------------------------------------------------
(* googleCalendarService, google_calendar_adapter.go:242-355 *)

\* what the Google API answers to one request: "nil" or the error's text
Upstream == {"nil", "googleapi: Error 404: Not Found, notFound",
             "googleapi: Error 503: Backend Error, backendError"}

\* strings.Contains(err.Error(), "404") || strings.Contains(err.Error(), "notFound")
IsNotFound(e) == e = "googleapi: Error 404: Not Found, notFound"

\* the HTTP status of the response that the error e stands for
StatusCode(e) ==
    IF e = "googleapi: Error 404: Not Found, notFound" THEN 404
    ELSE IF e = "googleapi: Error 503: Backend Error, backendError" THEN 503
    ELSE 200

CalendarIDs == {"", "primary"}

\* one request sent to the Google API: the method, the body sent with it
\* (a sequence of at most one calendar.Event), the error answered ("nil" for
\* none) and what the response holds (the Items of a list, the one event of
\* an insert)
Request(method, body, answer, response) ==
    [body |-> body, req |-> method, ans |-> answer, resp |-> response]

\* the outcome of a service call: the error and the value returned, the
\* requests sent to the Google API, in order, and the strings the call has
\* left in the variables that its pointers refer to
Outcome(err, val, net, cells) == [err |-> err, val |-> val, net |-> net, cells |-> cells]

\* a calendar.CalendarListEntry of the response, and the lists of them that
\* CalendarList.List answers with
CalendarListEntry(id, summary, description, timeZone) ==
    [Id |-> id, Summary |-> summary, Description |-> description, TimeZone |-> timeZone]

Entries ==
    {CalendarListEntry("primary", "Me", "", "UTC"),
     CalendarListEntry("team", "Team", "shared", "Europe/Paris")}

MaxItems == 2

ItemLists == SeqUpTo(Entries, MaxItems)

\* a domain.Calendar that has lost its title
CalendarUntitled(item) ==
    [timeZone |-> item.TimeZone, id |-> item.Id, title |-> "",
     description |-> item.Description]

\* the domain.Calendar built at lines 249-254
Calendar(item) ==
    [timeZone |-> item.TimeZone, id |-> item.Id, title |-> item.Summary,
     description |-> item.Description]

\* a ListCalendars that reports a failed request as an empty list
ListSwallowing(list, items) ==
    Outcome(NoErr,
            Slice(IF list # "nil" THEN <<>>
                  ELSE [i \in 1..Len(items) |-> Calendar(items[i])]),
            <<Request("CalendarList.List", <<>>, list, IF list = "nil" THEN items ELSE <<>>)>>, <<>>)

\* googleCalendarService.ListCalendars, lines 242-257; list is the Google
\* API's answer and items the Items of its response
ServiceListCalendars(list, items) ==
    IF list # "nil"
    THEN Outcome(NewAPIError("list_calendars", <<"failed to list calendars">>, 500, list),
                 Nil, <<Request("CalendarList.List", <<>>, list, IF list = "nil" THEN items ELSE <<>>)>>, <<>>)
    ELSE Outcome(NoErr, Slice([i \in 1..Len(items) |-> Calendar(items[i])]),
                 <<Request("CalendarList.List", <<>>, list, IF list = "nil" THEN items ELSE <<>>)>>, <<>>)

\* an access check that lets every failure pass
AccessNotChecked(calID, get) == NoErr

\* googleCalendarService.validateCalendarAccess, lines 345-355
ValidateCalendarAccess(calID, get) ==
    IF get = "nil" THEN NoErr
    ELSE IF IsNotFound(get)
    THEN NewValidationError("calendar_id",
            <<"calendar '", calID, "' not found or access denied. Please verify the calendar ID and ensure you have access to it">>,
            get)
    ELSE NewAPIError("validate_calendar",
            <<"failed to validate calendar access: ", get>>, 500, get)

\* the calendar.EventDateTime of a domain.DateTime (lines 280-289) and back
\* (lines 321-330)
EventDateTime(d) == [TimeZone |-> d.timeZone, DateTime |-> d.dateTime, Date |-> d.date]
DomainDateTime(w) == [dateTime |-> w.DateTime, date |-> w.Date, timeZone |-> w.TimeZone]

\* the calendar.Event that CreateEvent builds from ev at lines 277-302; m
\* holds the strings that pointers refer to
GcalEv(ev, m) ==
    [Id |-> "",
     Summary |-> ev.title,
     Description |-> ev.description,
     Start |-> EventDateTime(ev.start),
     End |-> EventDateTime(ev.end),
     Location |-> IF ev.location.nil THEN "" ELSE m[ev.location.addr],
     Attendees |-> IF Len(ev.attendees.elems) > 0
                   THEN Slice([i \in 1..Len(ev.attendees.elems) |->
                                  [Email |-> ev.attendees.elems[i]]])
                   ELSE NilSlice]

\* the attendee emails of the response, last first
GetEventAttendeesReversed(attendees) ==
    Slice([i \in 1..Len(attendees.elems) |->
              attendees.elems[Len(attendees.elems) + 1 - i].Email])

\* getEventAttendees, lines 336-342
GetEventAttendees(attendees) ==
    Slice([i \in 1..Len(attendees.elems) |-> attendees.elems[i].Email])

\* the domain.Event that CreateEvent returns for the response created, lines
\* 317-333: its Location is the address of the response's field
DomainEvent(created) ==
    Event(created.Id, created.Summary, created.Description,
          DomainDateTime(created.Start), DomainDateTime(created.End),
          Ptr(AddrCreated), GetEventAttendees(created.Attendees))

\* a CreateEvent that checks the event but not the calendar ID before it
\* asks the Google API for the calendar
ServiceCreateEventUnguarded(calID, ev, get, insert, created, m) ==
    IF ev.nil
    THEN Outcome(NewValidationError("event", <<"event cannot be nil">>, "nil"),
                 Nil, <<>>, <<>>)
    ELSE Outcome(ValidateCalendarAccess(calID, "nil"), Nil,
                 <<Request("Calendars.Get", <<>>, "nil", <<>>)>>, <<>>)

\* googleCalendarService.CreateEvent, lines 259-334; get and insert are the
\* Google API's answers to Calendars.Get and Events.Insert, created is the
\* calendar.Event of the latter's response, m holds the strings that
\* pointers refer to
ServiceCreateEvent(calID, ev, get, insert, created, m) ==
    LET access == Request("Calendars.Get", <<>>, get, <<>>)
        write == Request("Events.Insert", <<GcalEv(ev, m)>>, insert,
                         IF insert = "nil" THEN <<created>> ELSE <<>>)
    IN  IF ev.nil
        THEN Outcome(NewValidationError("event", <<"event cannot be nil">>, "nil"),
                     Nil, <<>>, <<>>)
        ELSE IF calID = ""
        THEN Outcome(NewValidationError("calendar_id", <<"calendar ID cannot be empty">>, "nil"),
                     Nil, <<>>, <<>>)
        ELSE IF ValidateCalendarAccess(calID, get) # NoErr
        THEN Outcome(ValidateCalendarAccess(calID, get), Nil, <<access>>, <<>>)
        ELSE IF Validate(ev) # "nil"
        THEN Outcome(NewValidationError("event", <<"invalid event data">>, Validate(ev)),
                     Nil, <<access>>, <<>>)
        ELSE IF insert # "nil"
        THEN Outcome(NewAPIError("create_event",
                                 IF IsNotFound(insert)
                                 THEN <<"calendar '", calID, "' not found or access denied. Please check the calendar ID and permissions">>
                                 ELSE <<"failed to create event in calendar '", calID, "': ", insert>>,
                                 500, insert),
                     Nil, <<access, write>>, <<>>)
        ELSE Outcome(NoErr, DomainEvent(created), <<access, write>>,
                     <<created.Location>>)

----------------------------------------------------------------------------
(* Metrics, unnamed/part_005 (metrics.go), and GoogleCalendarAdapter *)

Operations == {"list_calendars", "create_event"}
ErrorTypes == {"rate_limit", "api_error"}

\* one recording: recordAPIRequest (lines 36-38), recordAPIResponseDuration
\* (41-43), recordAPIError (46-48), recordRateLimitHit (51-53)
RecordAPIRequest(operation) ==
    [type |-> "", op |-> operation, metric |-> "apiRequestsTotal"]
RecordAPIResponseDuration(operation) ==
    [type |-> "", op |-> operation, metric |-> "apiResponseDuration"]
RecordAPIError(operation, errorType) ==
    [type |-> errorType, op |-> operation, metric |-> "apiErrorsTotal"]
RecordRateLimitHit ==
    [type |-> "", op |-> "", metric |-> "rateLimitHitsTotal"]

\* the two other steps of an adapter method, noted among its recordings in
\* the order in which they happen: a.limiter.Allow() (lines 192, 214) and the
\* call of a.service (lines 198, 220)
LimiterAllow == [type |-> "", op |-> "limiter.Allow", metric |-> ""]
ServiceCall == [type |-> "", op |-> "service", metric |-> ""]

\* how often the recording r occurs in the sequence obs
Count(obs, r) == Cardinality({i \in DOMAIN obs : obs[i] = r})

\* the result of an adapter method: what Allow() said, the error and the
\* value returned, the requests sent, the strings left in memory, and the
\* recordings and steps made, in order
Returned(admitted, err, val, net, cells, obs) ==
    [err |-> err, val |-> val, net |-> net, cells |-> cells, obs |-> obs,
     admitted |-> admitted]

\* an adapter method that goes on to its service although Allow() refused
CallWithoutToken(operation, admitted, out) ==
    Returned(admitted, out.err, out.val, out.net, out.cells,
             <<RecordAPIRequest(operation), LimiterAllow, ServiceCall,
               RecordAPIResponseDuration(operation)>>
             \o (IF out.err # NoErr THEN <<RecordAPIError(operation, "api_error")>>
                 ELSE <<>>))

\* an adapter method that calls its service once more when it failed
CallRetrying(operation, admitted, out) ==
    IF ~admitted
    THEN Returned(FALSE, RateLimitExceededError, Nil, <<>>, <<>>,
                  <<RecordAPIRequest(operation), LimiterAllow, RecordRateLimitHit,
                    RecordAPIError(operation, "rate_limit")>>)
    ELSE Returned(TRUE, out.err, out.val,
                  IF out.err # NoErr THEN out.net \o out.net ELSE out.net, out.cells,
                  <<RecordAPIRequest(operation), LimiterAllow, ServiceCall>>
                  \o (IF out.err # NoErr THEN <<ServiceCall>> ELSE <<>>)
                  \o <<RecordAPIResponseDuration(operation)>>
                  \o (IF out.err # NoErr
                      THEN <<RecordAPIError(operation, "api_error")>> ELSE <<>>))

\* an adapter method that counts the request only once it is admitted
CallCountedLate(operation, admitted, out) ==
    IF ~admitted
    THEN Returned(FALSE, RateLimitExceededError, Nil, <<>>, <<>>,
                  <<LimiterAllow, RecordRateLimitHit,
                    RecordAPIError(operation, "rate_limit")>>)
    ELSE Returned(TRUE, out.err, out.val, out.net, out.cells,
                  <<LimiterAllow, RecordAPIRequest(operation), ServiceCall,
                    RecordAPIResponseDuration(operation)>>
                  \o (IF out.err # NoErr
                      THEN <<RecordAPIError(operation, "api_error")>> ELSE <<>>))

\* GoogleCalendarAdapter.ListCalendars (lines 186-207) and CreateEvent
\* (209-229) share their shape: admitted is what a.limiter.Allow() returned,
\* out the outcome of the service call if it is made
AdapterCall(operation, admitted, out) ==
    IF ~admitted
    THEN Returned(FALSE, RateLimitExceededError, Nil, <<>>, <<>>,
                  <<RecordAPIRequest(operation), LimiterAllow, RecordRateLimitHit,
                    RecordAPIError(operation, "rate_limit")>>)
    ELSE Returned(TRUE, out.err, out.val, out.net, out.cells,
                  <<RecordAPIRequest(operation), LimiterAllow, ServiceCall,
                    RecordAPIResponseDuration(operation)>>
                  \o (IF out.err # NoErr
                      THEN <<RecordAPIError(operation, "api_error")>> ELSE <<>>))

\* the number of calls made to each operation when the adapter has served n
\* ListCalendars calls and nothing else
Made(n) == [o \in Operations |-> IF o = "list_calendars" THEN n ELSE 0]

\* n counts the calls of the run, made the calls of each operation since the
\* process started
NoCall ==
    [op |-> "", err |-> NoErr, n |-> 0, val |-> Nil, net |-> <<>>,
     obs |-> <<>>, admitted |-> FALSE, made |-> Made(0), calendarID |-> "",
     event |-> Nil]

\* the strings in the variables that pointers can refer to, before any call
NoStrings == [a \in {AddrEv, AddrCreated} |-> ""]

\* a process that has built no TokenEncryption and no TokenFileRepo
NoBytes == [made |-> FALSE, plaintext |-> <<>>, data |-> <<>>, changed |-> ""]
NotDecrypted == [err |-> NoErr, val |-> Nil, done |-> FALSE]
NoRepoCall ==
    [op |-> "", err |-> NoErr, n |-> 0, val |-> Nil, plaintext |-> <<>>, token |-> Nil,
     before |-> Nil, sealed |-> <<>>, saved |-> NoErr]
\* GetCredentialsPath was not called
NoEnvCall ==
    [err |-> NoErr, val |-> <<>>, done |-> FALSE, environ |-> <<>>,
     wd |-> [err |-> "nil", val |-> <<"/">>], fs |-> <<>>]
\* AuthFlow was not called
NoAuthFlow ==
    [code |-> "", err |-> NoErr, pc |-> "idle", val |-> Nil, token |-> Nil,
     before |-> Nil, saved |-> NoErr, home |-> "home", now |-> Nil,
     log |-> <<>>]
\* no Execute call was made
NoUcCall ==
    [out |-> [err |-> "nil", val |-> Nil, calls |-> 0, panic |-> FALSE],
     calendarID |-> "", event |-> Nil, done |-> FALSE, repo |-> Nil]
\* no goroutine is inside TokenFileRepo.Save
NoSavers == <<>>
\* the callback requests that reach the server
MaxCallbacks == 2

Callbacks == 1..MaxCallbacks

\* startLocalServer has been called (oauth.go:126-160): the select is
\* waiting, no request has arrived, the context is live
NoServer ==
    [err |-> "nil", val |-> "", done |-> FALSE, main |-> "select",
     watcher |-> "wait", listen |-> "starting", inShutdown |-> FALSE,
     h |-> [i \in Callbacks |-> [code |-> "", pc |-> "none"]]]
\* the calculator server has read no request (part_014:119-123); before is
\* the flag when the last request was read, ready whether an initialize
\* request with params that unmarshal has been read
NoRpc ==
    [n |-> 0, req |-> Nil, resp |-> Nil, before |-> FALSE,
     initialized |-> FALSE, exited |-> FALSE, ready |-> FALSE]

\* none of the other components of the process has been used yet
NoApp ==
    /\ envCall = NoEnvCall
    /\ authFlow = NoAuthFlow
    /\ ucCall = NoUcCall
    /\ savers = NoSavers
    /\ cb = NoServer
    /\ rpc = NoRpc

NoStore ==
    /\ te = Nil
    /\ encrypted = NoBytes
    /\ decrypted = NotDecrypted
    /\ disk = [dir |-> FALSE, file |-> Nil, umask |-> {}]
    /\ repoCall = NoRepoCall

\* the metrics of a process that has made no call yet
NoCalls ==
    /\ apiRequestsTotal = [o \in Operations |-> 0]
    /\ apiErrorsTotal = [o \in Operations |-> [t \in ErrorTypes |-> 0]]
    /\ rateLimitHitsTotal = 0
    /\ apiResponseDuration = [o \in Operations |-> 0]
    /\ lastCall = NoCall
    /\ mem = NoStrings
    /\ NoStore

----------------------------------------------------------------------------
(* Observers *)

\* is there no token to take at this instant?
Exhausted == limTokens < OneToken

\* the observer of Reset at rest
MonIdle == [st |-> 0, res |-> FALSE, who |-> ""]

\* a Reset that completes on an exhausted bucket arms the observer (st 1)
MonReset ==
    IF Exhausted /\ mon.st # 3 THEN [st |-> 1, res |-> FALSE, who |-> ""] ELSE mon

\* the first Allow after it, at the same instant, is recorded (st 2)
MonAllow(ok) == IF mon.st = 1 THEN [st |-> 2, res |-> ok, who |-> ""] ELSE mon

\* and so is a Wait(context.Background()) that p begins after it at the same
\* instant (st 3, for as long as the call lasts), and how it returns (st 4)
MonWait(p, c) ==
    IF mon.st = 1 /\ c = Background THEN [st |-> 3, res |-> FALSE, who |-> p] ELSE mon
MonReturn(p, ok) ==
    IF mon.st = 3 /\ mon.who = p THEN [st |-> 4, res |-> ok, who |-> p] ELSE mon

\* any passage of time ends what was recorded at one instant, and so does a
\* token that a cancelled reservation gives back
MonTick == IF mon.st = 3 THEN mon ELSE MonIdle

\* no reference bucket is kept
NotCounted == [tokens |-> 0, on |-> FALSE, left |-> 0]

\* the reference bucket after an admission, and after a tick
Spend(s) == IF s.on THEN [s EXCEPT !.tokens = @ - OneToken] ELSE s
Refill(s) ==
    IF s.on
    THEN [s EXCEPT !.left = @ - 1,
                   !.tokens = Min(Burst * OneToken, @ + TokensFromDuration(1))]
    ELSE s

----------------------------------------------------------------------------
(* Initial state: NewRateLimiter() has just returned *)

NoResult ==
    [err |-> NoErr, ctxErr |-> "nil", ok |-> FALSE, pre |-> FALSE,
     bg |-> FALSE, from |-> ""]

\* the record of a Wait call of goroutine p that returns err; ctxErr, pre and
\* bg note ctx.Err() at the return, whether ctx was cancelled before the call
\* and whether it is context.Background(); from notes where the call stood
Result(p, err) ==
    [err |-> err, ctxErr |-> CtxErr(p), ok |-> err = NoErr, pre |-> ctx[p].pre,
     bg |-> ctx[p] = Background, from |-> pc[p]]

NoLog == [res |-> <<>>, open |-> FALSE]

\* rate_limiter.go:36-46: a backoff not yet used; no call is in flight
NoCallInFlight ==
    /\ backoff = 0
    /\ curInt = [i \in Slots |-> 0]
    /\ pc = [p \in Procs |-> "idle"]
    /\ ctx = [p \in Procs |-> Background]
    /\ resAt = [p \in Procs |-> 0]
    /\ tk = [p \in Procs |-> NoTicker]
    /\ ret = NoResult

\* rate_limiter.go:34: the bucket starts full; no adapter call was made
NewRateLimiter ==
    /\ limTokens = Burst * OneToken
    /\ limLastEvent = 0
    /\ NoCallInFlight
    /\ NoCalls

\* the limiter, the adapter and the token store at rest
Quiet ==
    /\ NewRateLimiter
    /\ spendable = NotCounted
    /\ allowLog = NoLog
    /\ mon = MonIdle

\* the limiter with all its operations; admissions are not counted
RLInit ==
    /\ Quiet
    /\ NoApp

\* the token bucket under Allow and Wait, with admissions counted
BucketInit ==
    /\ NewRateLimiter
    /\ spendable = [tokens |-> Burst * OneToken, on |-> TRUE, left |-> MaxWindow]
    /\ allowLog = [res |-> <<>>, open |-> TRUE]
    /\ mon = MonIdle
    /\ NoApp

\* a goroutine starts a new call only when its previous ticker goroutine is gone
CanCall(p) == pc[p] = "idle" /\ tk[p].st = "none"

----------------------------------------------------------------------------
(* RateLimiter.Allow, rate_limiter.go:88-90 *)

Allow(p) ==
    /\ CanCall(p)
    /\ LET r == ReserveN(limTokens, 0) IN
        /\ IF r.ok
           THEN /\ limTokens' = r.tokens
                /\ limLastEvent' = r.delay
           ELSE UNCHANGED limVars
        /\ spendable' = IF r.ok THEN Spend(spendable) ELSE spendable
        /\ allowLog' = IF allowLog.open /\ Len(allowLog.res) <= Burst
                       THEN [allowLog EXCEPT !.res = Append(@, r.ok)] ELSE allowLog
        /\ mon' = MonAllow(r.ok)
    /\ UNCHANGED <<boVars, pc, ctx, resAt, tk, ret>>
    /\ UNCHANGED gwVars

----------------------------------------------------------------------------
(* RateLimiter.Reset, rate_limiter.go:93-100 *)

\* lines 94-98: a new ExponentialBackOff is built
ResetBegin(p) ==
    /\ CanCall(p)
    /\ pc' = [pc EXCEPT ![p] = "reset"]
    /\ UNCHANGED <<limVars, boVars, ctx, resAt, tk, ret, spendable, obsVars>>
    /\ UNCHANGED gwVars

\* a Reset that also builds a new, full limiter
ResetRefills(tokens, lastEvent) == <<Burst * OneToken, 0>>

\* the limiter state Reset leaves
ResetBucket(tokens, lastEvent) == <<tokens, lastEvent>>

\* line 99: r.backoff = expBackoff, a plain store
ResetStore(p) ==
    /\ pc[p] = "reset"
    /\ curInt' = Collect([curInt EXCEPT ![NewExponentialBackOff] = 0], NewExponentialBackOff)
    /\ backoff' = NewExponentialBackOff
    /\ LET l == ResetBucket(limTokens, limLastEvent) IN
        /\ limTokens' = l[1]
        /\ limLastEvent' = l[2]
    /\ pc' = [pc EXCEPT ![p] = "idle"]
    /\ mon' = MonReset
    /\ UNCHANGED <<ctx, resAt, tk, ret, spendable, allowLog>>
    /\ UNCHANGED gwVars

----------------------------------------------------------------------------
(* RateLimiter.Wait, rate_limiter.go:50-85 *)

WaitBegin(p, c) ==
    /\ CanCall(p)
    /\ limTokens > -MaxDebt * OneToken
    /\ pc' = [pc EXCEPT ![p] = "wait"]
    /\ ctx' = [ctx EXCEPT ![p] = c]
    /\ ret' = NoResult
    /\ allowLog' = NoLog
    /\ mon' = MonWait(p, c)
    /\ UNCHANGED <<limVars, boVars, resAt, tk, spendable>>
    /\ UNCHANGED gwVars

\* Wait returns nil (line 53 or 81); the deferred ticker.Stop() runs
WaitReturnsNil(p) ==
    /\ pc' = [pc EXCEPT ![p] = "idle"]
    /\ ret' = Result(p, NoErr)
    /\ ctx' = [ctx EXCEPT ![p] = Background]
    /\ tk' = [tk EXCEPT ![p] = StopTicker(tk[p])]
    /\ resAt' = [resAt EXCEPT ![p] = 0]
    /\ spendable' = Spend(spendable)
    /\ mon' = MonReturn(p, TRUE)

\* Wait returns the error e; the deferred ticker.Stop() runs
WaitReturnsErr(p, e) ==
    /\ pc' = [pc EXCEPT ![p] = "idle"]
    /\ ret' = Result(p, e)
    /\ ctx' = [ctx EXCEPT ![p] = Background]
    /\ tk' = [tk EXCEPT ![p] = StopTicker(tk[p])]
    /\ resAt' = [resAt EXCEPT ![p] = 0]
    /\ mon' = MonReturn(p, FALSE)
    /\ UNCHANGED spendable

\* r.limiter.Wait(ctx) returned an error: line 52 falls through to the check
\* of line 56, line 80 goes round the loop again
LimiterWaitFailed(p) ==
    /\ pc' = [pc EXCEPT ![p] = IF pc[p] \in {"wait", "sleep"} THEN "chk" ELSE "loop"]
    /\ resAt' = [resAt EXCEPT ![p] = 0]
    /\ UNCHANGED <<ctx, tk, ret, spendable>>

\* r.limiter.Wait(ctx) at line 52 (pc "wait") and line 80 (pc "retry"), up to
\* the point where it returns or starts waiting for its reservation
LimiterWait(p) ==
    /\ pc[p] \in {"wait", "retry"}
    /\ LET r == ReserveN(limTokens, WaitLimit(p)) IN
       IF CtxErr(p) # "nil" \/ ~r.ok
       THEN /\ LimiterWaitFailed(p)
            /\ UNCHANGED <<limVars, mon>>
       ELSE /\ limTokens' = r.tokens
            /\ limLastEvent' = r.delay
            /\ IF r.delay = 0
               THEN WaitReturnsNil(p)
               ELSE /\ pc' = [pc EXCEPT ![p] = IF pc[p] = "wait" THEN "sleep" ELSE "sleepL"]
                    /\ resAt' = [resAt EXCEPT ![p] = r.delay]
                    /\ UNCHANGED <<ctx, tk, ret, spendable, mon>>
    /\ UNCHANGED <<boVars, allowLog>>
    /\ UNCHANGED gwVars

\* rate.Limiter.wait: the reservation's timer fired
SleepWake(p) ==
    /\ pc[p] \in {"sleep", "sleepL"}
    /\ resAt[p] <= 0
    /\ WaitReturnsNil(p)
    /\ UNCHANGED <<limVars, boVars, allowLog>>
    /\ UNCHANGED gwVars

\* rate.Limiter.wait: ctx.Done() fired first; the reservation is cancelled
SleepCancel(p) ==
    /\ pc[p] \in {"sleep", "sleepL"}
    /\ CtxErr(p) # "nil"
    /\ LET l == CancelAt(limTokens, limLastEvent, resAt[p]) IN
        /\ limTokens' = l[1]
        /\ limLastEvent' = l[2]
    /\ LimiterWaitFailed(p)
    /\ mon' = MonTick
    /\ UNCHANGED <<boVars, allowLog>>
    /\ UNCHANGED gwVars

\* line 56 never taking the error return
CtxCheckNever(ctxErr) == FALSE

\* line 56 always taking the error return
CtxCheckAlways(ctxErr) == TRUE

\* does line 56 take the error return?
CtxCheck(ctxErr) == ctxErr # "nil"

\* lines 56-64
CheckCtx(p) ==
    /\ pc[p] = "chk"
    /\ IF CtxCheck(CtxErr(p))
       THEN WaitReturnsErr(p, WaitCancelError(CtxErr(p)))
       ELSE /\ pc' = [pc EXCEPT ![p] = "newticker"]
            /\ UNCHANGED <<ctx, resAt, tk, ret, spendable, mon>>
    /\ UNCHANGED <<limVars, boVars, allowLog>>
    /\ UNCHANGED gwVars

\* line 67: the load of r.backoff that is passed to backoff.NewTicker
TickerNew(p) ==
    /\ pc[p] = "newticker"
    /\ tk' = [tk EXCEPT ![p] = [NoTicker EXCEPT !.b = backoff]]
    /\ pc' = [pc EXCEPT ![p] = "tickreset"]
    /\ UNCHANGED <<limVars, boVars, ctx, resAt, ret, spendable, obsVars>>
    /\ UNCHANGED gwVars

\* backoff.NewTicker: b.Reset() stores InitialInterval, then the ticker
\* goroutine starts and offers its first tick at once
TickerReset(p) ==
    /\ pc[p] = "tickreset"
    /\ curInt' = [curInt EXCEPT ![tk[p].b] = InitialInterval]
    /\ tk' = [tk EXCEPT ![p].st = "send"]
    /\ pc' = [pc EXCEPT ![p] = "loop"]
    /\ UNCHANGED <<limVars, backoff, ctx, resAt, ret, spendable, obsVars>>
    /\ UNCHANGED gwVars

\* lines 72-78: the select takes <-ctx.Done()
LoopDone(p) ==
    /\ pc[p] = "loop"
    /\ CtxErr(p) # "nil"
    /\ WaitReturnsErr(p, WaitCancelError(CtxErr(p)))
    /\ UNCHANGED <<limVars, boVars, allowLog>>
    /\ UNCHANGED gwVars

\* line 79: the select takes <-ticker.C; the ticker goroutine goes on to
\* compute the next interval
LoopTick(p) ==
    /\ pc[p] = "loop"
    /\ tk[p].st = "send"
    /\ tk[p].n < MaxTicks
    /\ pc' = [pc EXCEPT ![p] = "retry"]
    /\ tk' = [tk EXCEPT ![p].st = "nb_read", ![p].n = @ + 1]
    /\ UNCHANGED <<limVars, boVars, ctx, resAt, ret, spendable, obsVars>>
    /\ UNCHANGED gwVars

----------------------------------------------------------------------------
(* The ticker goroutine (backoff.Ticker.run / send) *)

\* ExponentialBackOff.NextBackOff loads currentInterval
TickerNextRead(p) ==
    /\ tk[p].st = "nb_read"
    /\ LET cur == curInt[tk[p].b] IN
       tk' = [tk EXCEPT ![p].st = "nb_write",
                        ![p].rd = IF cur = 0 THEN InitialInterval ELSE cur]
    /\ UNCHANGED <<limVars, boVars, pc, ctx, resAt, ret, spendable, obsVars>>
    /\ UNCHANGED gwVars

\* NextBackOff stores the incremented interval and returns the jittered one;
\* the ticker arms its timer, or exits if it was stopped meanwhile
TickerNextWrite(p) ==
    /\ tk[p].st = "nb_write"
    /\ curInt' = [curInt EXCEPT ![tk[p].b] = IncrementCurrentInterval(tk[p].rd)]
    /\ \E next \in RandomValuesFromInterval(tk[p].rd) :
         tk' = [tk EXCEPT ![p] = IF tk[p].stop THEN NoTicker
                                 ELSE [tk[p] EXCEPT !.st = "timer", !.rd = 0,
                                                    !.at = next]]
    /\ UNCHANGED <<limVars, backoff, pc, ctx, resAt, ret, spendable, obsVars>>
    /\ UNCHANGED gwVars

\* the ticker's timer fired: it offers the next tick
TickerFire(p) ==
    /\ tk[p].st = "timer"
    /\ tk[p].at = 0
    /\ tk' = [tk EXCEPT ![p].st = "send"]
    /\ UNCHANGED <<limVars, boVars, pc, ctx, resAt, ret, spendable, obsVars>>
    /\ UNCHANGED gwVars

----------------------------------------------------------------------------
(* Environment *)

\* the caller cancels the context of its Wait call in flight
CancelCtx(p) ==
    /\ pc[p] \notin {"idle", "reset"}
    /\ ctx[p].cancelable
    /\ CtxErr(p) = "nil"
    /\ ctx' = [ctx EXCEPT ![p].cancelled = TRUE]
    /\ UNCHANGED <<limVars, boVars, pc, resAt, tk, ret, spendable, obsVars>>
    /\ UNCHANGED gwVars

\* 100ms pass: the bucket refills and every deadline and timer comes closer
Tick ==
    /\ spendable.on => spendable.left > 0
    /\ limTokens' = Advance(limTokens, 1)
    /\ limLastEvent' = Max(limLastEvent - 1, 0)
    /\ ctx' = [p \in Procs |-> CtxTick(ctx[p])]
    /\ resAt' = [p \in Procs |-> IF pc[p] \in {"sleep", "sleepL"}
                                  THEN Max(resAt[p] - 1, Past) ELSE resAt[p]]
    /\ tk' = [p \in Procs |-> TickerTick(tk[p])]
    /\ spendable' = Refill(spendable)
    /\ mon' = MonTick
    /\ allowLog' = NoLog
    /\ ret' = NoResult
    /\ curInt' = Collect(curInt, backoff)
    /\ UNCHANGED <<backoff, pc>>
    /\ UNCHANGED gwVars

RLNext ==
    \/ \E p \in Procs : Allow(p)
    \/ \E p \in Resetters : ResetBegin(p)
    \/ \E p \in Resetters : ResetStore(p)
    \/ \E p \in Waiters : \E c \in Contexts : WaitBegin(p, c)
    \/ \E p \in Procs : LimiterWait(p)
    \/ \E p \in Procs : SleepWake(p)
    \/ \E p \in Procs : SleepCancel(p)
    \/ \E p \in Procs : CheckCtx(p)
    \/ \E p \in Procs : TickerNew(p)
    \/ \E p \in Procs : TickerReset(p)
    \/ \E p \in Procs : LoopDone(p)
    \/ \E p \in Procs : LoopTick(p)
    \/ \E p \in Procs : TickerNextRead(p)
    \/ \E p \in Procs : TickerNextWrite(p)
    \/ \E p \in Procs : TickerFire(p)
    \/ \E p \in Procs : CancelCtx(p)
    \/ Tick

Spec == RLInit /\ [][RLNext]_vars

\* contexts without a deadline
NoDeadlineContexts == {c \in Contexts : c.deadline = NoDeadline}

\* Allow and Wait only, on contexts that carry no deadline: limiter.Wait then
\* always gets its reservation, and Wait never reaches its backoff loop
BucketNext ==
    \/ \E p \in Procs : Allow(p)
    \/ \E p \in Procs : \E c \in NoDeadlineContexts : WaitBegin(p, c)
    \/ \E p \in Procs : LimiterWait(p)
    \/ \E p \in Procs : SleepWake(p)
    \/ \E p \in Procs : SleepCancel(p)
    \/ \E p \in Procs : CheckCtx(p)
    \/ \E p \in Procs : CancelCtx(p)
    \/ Tick

SpecBucket == BucketInit /\ [][BucketNext]_vars

\* what a goroutine in a call does without any caller deciding it
Step(p) ==
    \/ ResetStore(p)
    \/ LimiterWait(p)
    \/ SleepWake(p)
    \/ SleepCancel(p)
    \/ CheckCtx(p)
    \/ TickerNew(p)
    \/ TickerReset(p)
    \/ LoopDone(p)
    \/ LoopTick(p)
    \/ TickerNextRead(p)
    \/ TickerNextWrite(p)
    \/ TickerFire(p)

\* the Go scheduler runs a goroutine that is in Wait in the end, its timers
\* fire, and time goes on; nothing is assumed of the callers of Reset
SpecFair ==
    /\ RLInit
    /\ [][RLNext]_vars
    /\ WF_vars(Tick)
    /\ \A p \in Waiters : WF_vars(Step(p))

----------------------------------------------------------------------------
(* Unsynchronised memory accesses.  RateLimiter (rate_limiter.go:25-28)    *)
(* holds no mutex, and ExponentialBackOff has none either.                 *)

\* the access to shared memory that caller p's next step makes: the field
\* RateLimiter.backoff, or currentInterval of a backoff object
CallerAccess(p) ==
    IF pc[p] = "reset" THEN {[wait |-> FALSE, write |-> TRUE, loc |-> <<"backoff">>]}
    ELSE IF pc[p] = "newticker" THEN {[wait |-> TRUE, write |-> FALSE, loc |-> <<"backoff">>]}
    ELSE IF pc[p] = "tickreset"
         THEN {[wait |-> TRUE, write |-> TRUE, loc |-> <<"currentInterval", tk[p].b>>]}
    ELSE {}

\* the same for the ticker goroutine of p's Wait call
TickerAccess(p) ==
    IF tk[p].st = "nb_read"
    THEN {[wait |-> TRUE, write |-> FALSE, loc |-> <<"currentInterval", tk[p].b>>]}
    ELSE IF tk[p].st = "nb_write"
         THEN {[wait |-> TRUE, write |-> TRUE, loc |-> <<"currentInterval", tk[p].b>>]}
    ELSE {}

\* goroutines of different callers are not ordered by any synchronisation:
\* two of them are about to access the same location, one of them writing,
\* and one of them on behalf of a Wait call
DataRace ==
    \E p, q \in Procs :
        /\ p # q
        /\ \E a \in CallerAccess(p) \cup TickerAccess(p) :
           \E b \in CallerAccess(q) \cup TickerAccess(q) :
                /\ a.loc = b.loc
                /\ a.write \/ b.write
                /\ a.wait \/ b.wait

----------------------------------------------------------------------------
(* GoogleCalendarAdapter: one call, from its entry to its return *)

\* the call of `operation' with the given arguments; out is the outcome of
\* the service call it makes if the limiter admits it
Call(operation, calID, ev, out) ==
    /\ lastCall.n < MaxCalls
    /\ LET r == ReserveN(limTokens, 0)
           c == AdapterCall(operation, r.ok, out)
       IN /\ IF r.ok
             THEN /\ limTokens' = r.tokens
                  /\ limLastEvent' = r.delay
             ELSE UNCHANGED limVars
          /\ apiRequestsTotal' =
                [o \in Operations |-> apiRequestsTotal[o] + Count(c.obs, RecordAPIRequest(o))]
          /\ apiErrorsTotal' =
                [o \in Operations |-> [t \in ErrorTypes |->
                    apiErrorsTotal[o][t] + Count(c.obs, RecordAPIError(o, t))]]
          /\ rateLimitHitsTotal' = rateLimitHitsTotal + Count(c.obs, RecordRateLimitHit)
          /\ apiResponseDuration' =
                [o \in Operations |->
                    apiResponseDuration[o] + Count(c.obs, RecordAPIResponseDuration(o))]
          /\ lastCall' = [op |-> operation, err |-> c.err,
                          n |-> lastCall.n + 1, val |-> c.val, net |-> c.net,
                          obs |-> c.obs, admitted |-> c.admitted,
                          made |-> [lastCall.made EXCEPT ![operation] = @ + 1],
                          calendarID |-> calID, event |-> ev]
          /\ mem' = IF c.cells = <<>> THEN mem
                    ELSE [mem EXCEPT ![AddrCreated] = c.cells[1]]
    /\ UNCHANGED <<boVars, pc, ctx, resAt, tk, ret, spendable, obsVars, storeVars, appVars>>

\* GoogleCalendarAdapter.ListCalendars, lines 186-207
ListCalendars(list, items) ==
    Call("list_calendars", "", Nil, ServiceListCalendars(list, items))

\* GoogleCalendarAdapter.CreateEvent, lines 209-229
CreateEvent(calID, ev, get, insert, created) ==
    Call("create_event", calID, ev, ServiceCreateEvent(calID, ev, get, insert, created, mem))

\* the calendar.Event of the response to an Events.Insert of ev: the server
\* has given it an identifier
Created(ev, m) == [GcalEv(ev, m) EXCEPT !.Id = "evt1"]

\* the Google API answers the requests that are sent
Answers(calID, ev, get, insert) ==
    LET net == ServiceCreateEvent(calID, ev, get, insert, Created(ev, mem), mem).net
    IN  /\ Len(net) < 1 => get = "nil"
        /\ Len(net) < 2 => insert = "nil"

\* an adapter built by NewWithService/New (lines 166-184) that has since
\* served n ListCalendars calls, at one instant and all successful: every
\* one of them took a token and recorded a request and a latency.  The
\* bucket is full, or has one token left, or is empty.
GWInit ==
    \E n \in {0, Burst - 1, Burst} :
        /\ limTokens = (Burst - n) * OneToken
        /\ limLastEvent = 0
        /\ NoCallInFlight
        /\ spendable = NotCounted
        /\ allowLog = NoLog
        /\ mon = MonIdle
        /\ apiRequestsTotal = Made(n)
        /\ apiErrorsTotal = [o \in Operations |-> [t \in ErrorTypes |-> 0]]
        /\ rateLimitHitsTotal = 0
        /\ apiResponseDuration = Made(n)
        /\ lastCall = [NoCall EXCEPT !.made = Made(n)]
        /\ mem = NoStrings
        /\ NoStore
        /\ NoApp

\* the calls of the gateway: the Google API answers a list request with no
\* calendars and an insert with the event it was sent
GWNext ==
    \/ \E list \in Upstream : ListCalendars(list, <<>>)
    \/ \E calID \in CalendarIDs, ev \in Events \cup {Nil} :
       \E get \in Upstream : \E insert \in Upstream :
            /\ Answers(calID, ev, get, insert)
            /\ CreateEvent(calID, ev, get, insert, Created(ev, mem))

SpecGW == GWInit /\ [][GWNext]_vars

----------------------------------------------------------------------------
(* The conversions between domain entities and the wire format: the first *)
(* call of an adapter, admitted and answered without error, and what is    *)
(* written afterwards to the strings it has handled                        *)

MaxAttendees == 2

Emails == {"a@example.com", "b@example.com"}
Locations == {"Room A", "Room B"}

\* Event.Attendees of the caller: nil, or a slice of at most MaxAttendees emails
AttendeeSlices == {NilSlice} \cup {Slice(q) : q \in SeqUpTo(Emails, MaxAttendees)}

\* valid events with or without a location, with any attendees
ConvEvents ==
    {Event("", "Standup", "weekly",
           [dateTime |-> "2024-01-01T09:00:00Z", date |-> "", timeZone |-> "UTC"],
           [dateTime |-> "2024-01-01T10:00:00Z", date |-> "", timeZone |-> "UTC"],
           l, a) : l \in {Nil, Ptr(AddrEv)}, a \in AttendeeSlices}

\* the calendar.Event values that Events.Insert can answer an insert of ev
\* with: the server decides on the location and on the attendees
Responses(ev, m) ==
    {[Created(ev, m) EXCEPT !.Location = l,
                            !.Attendees = IF a.nil THEN a
                                          ELSE Slice([i \in 1..Len(a.elems) |->
                                                         [Email |-> a.elems[i]]])] :
        l \in {""} \cup Locations, a \in AttendeeSlices}

\* a fresh adapter; the caller's location string is set
ConvInit ==
    /\ limTokens = Burst * OneToken
    /\ limLastEvent = 0
    /\ NoCallInFlight
    /\ spendable = NotCounted
    /\ allowLog = NoLog
    /\ mon = MonIdle
    /\ apiRequestsTotal = Made(0)
    /\ apiErrorsTotal = [o \in Operations |-> [t \in ErrorTypes |-> 0]]
    /\ rateLimitHitsTotal = 0
    /\ apiResponseDuration = Made(0)
    /\ lastCall = NoCall
    /\ \E s \in Locations : mem = [NoStrings EXCEPT ![AddrEv] = s]
    /\ NoStore
    /\ NoApp

\* the caller assigns to the string that the event it passed points to
MutateRequest(s) ==
    /\ lastCall.op = "create_event"
    /\ ~lastCall.event.location.nil
    /\ mem' = [mem EXCEPT ![lastCall.event.location.addr] = s]
    /\ UNCHANGED <<rlVars, metricVars, lastCall, storeVars, appVars>>

\* whoever holds the calendar.Event that Events.Insert returned (line 304)
\* assigns to its Location
MutateWire(s) ==
    /\ lastCall.op = "create_event"
    /\ lastCall.err = NoErr
    /\ mem' = [mem EXCEPT ![AddrCreated] = s]
    /\ UNCHANGED <<rlVars, metricVars, lastCall, storeVars, appVars>>

ConvNext ==
    \/ \E items \in ItemLists : lastCall.n = 0 /\ ListCalendars("nil", items)
    \/ \E ev \in ConvEvents : \E created \in Responses(ev, mem) :
            lastCall.n = 0 /\ CreateEvent("primary", ev, "nil", "nil", created)
    \/ \E s \in Locations : MutateRequest(s)
    \/ \E s \in Locations : MutateWire(s)

SpecConv == ConvInit /\ [][ConvNext]_vars

----------------------------------------------------------------------------
(* package crypto: TokenEncryption.  Bytes are the integers 0..255.  The   *)
(* primitives of the Go libraries (PBKDF2, AES-GCM) are replaced by        *)
(* arithmetic that keeps their lengths and what they depend on: the key    *)
(* on every byte of passphrase and salt, the ciphertext on key, nonce and  *)
(* plaintext, the tag on key, nonce and every byte of the ciphertext.      *)
(* Forging a tag, which has probability 2^-128 with AES-GCM, is left out.  *)

SaltSize == 16
KeyLen == 32
NonceSize == 12
TagSize == 16

\* errors.New(text)
ErrorString(text) ==
    [type |-> "errorString", op |-> "", msg |-> <<text>>, code |-> 0, cause |-> "nil"]

\* the error of gcm.Open
ErrOpen == ErrorString("cipher: message authentication failed")

\* the error of io.ReadFull(rand.Reader, b) when the generator delivers nothing
ErrRand == ErrorString("unexpected EOF")

\* a byte string as a Go slice, nil when a Go function returns one of length 0
\* without having allocated it
Bytes(b) == IF Len(b) = 0 THEN NilSlice ELSE Slice(b)

\* the sum of the bytes of b from position lo to position hi
RECURSIVE SumRange(_, _, _)
SumRange(b, lo, hi) ==
    IF lo > hi THEN 0
    ELSE IF lo = hi THEN b[lo]
    ELSE SumRange(b, lo, (lo + hi) \div 2) + SumRange(b, ((lo + hi) \div 2) + 1, hi)

\* os.Hostname() of the machines the process runs on
Hostnames == {<<97>>, <<98>>}

\* NewTokenEncryption: the passphrase is "gcal_mcp_" followed by the hostname
NewTokenEncryption(hostname) ==
    [nil |-> FALSE, passphrase |-> <<103, 99, 97, 108, 95, 109, 99, 112, 95>> \o hostname]

\* pbkdf2.Key(passphrase, salt, 100000, 32, sha256.New)
Pbkdf2Key(passphrase, salt) ==
    [j \in 1..KeyLen |->
        (passphrase[((j - 1) % Len(passphrase)) + 1] + salt[((j - 1) % Len(salt)) + 1] + j) % 256]

\* the byte that the cipher combines with byte i of the plaintext
Keystream(key, nonce, i) ==
    (key[KeyLen - TagSize + ((i - 1) % TagSize) + 1] + nonce[((i - 1) % NonceSize) + 1] + i) % 256

\* the authentication tag of a ciphertext
Tag(key, nonce, ciphertext) ==
    LET sum == SumRange(nonce, 1, Len(nonce)) + SumRange(ciphertext, 1, Len(ciphertext))
               + Len(ciphertext)
    IN  [j \in 1..TagSize |-> (key[j] + sum) % 256]

\* gcm.Seal(dst, nonce, plaintext, nil): dst, then the ciphertext, then the tag
Seal(key, dst, nonce, plaintext) ==
    LET ciphertext == [i \in 1..Len(plaintext) |->
                          (plaintext[i] + Keystream(key, nonce, i)) % 256]
    IN  dst \o ciphertext \o Tag(key, nonce, ciphertext)

\* gcm.Open that returns the plaintext whatever the tag is
OpenUnauthenticated(key, nonce, ciphertext) ==
    LET n == IF Len(ciphertext) < TagSize THEN 0 ELSE Len(ciphertext) - TagSize
    IN  [err |-> NoErr,
         val |-> Bytes([i \in 1..n |-> (256 + ciphertext[i] - Keystream(key, nonce, i)) % 256])]

\* gcm.Open(nil, nonce, ciphertext, nil)
Open(key, nonce, ciphertext) ==
    IF Len(ciphertext) < TagSize THEN [err |-> ErrOpen, val |-> NilSlice]
    ELSE LET n == Len(ciphertext) - TagSize
             body == SubSeq(ciphertext, 1, n)
             tag == SubSeq(ciphertext, n + 1, Len(ciphertext))
         IN  IF tag # Tag(key, nonce, body) THEN [err |-> ErrOpen, val |-> NilSlice]
             ELSE [err |-> NoErr,
                   val |-> Bytes([i \in 1..n |->
                                    (256 + body[i] - Keystream(key, nonce, i)) % 256])]

\* what the two io.ReadFull(rand.Reader, ...) calls of one Encrypt deliver
Salts == {[i \in 1..SaltSize |-> 0], [i \in 1..SaltSize |-> (17 * i) % 256]}
Nonces == {[i \in 1..NonceSize |-> 255], [i \in 1..NonceSize |-> (29 * i) % 256]}
Draws ==
    {[err |-> "nil", salt |-> s, nonce |-> n] : s \in Salts, n \in Nonces}
    \cup {[err |-> "salt", salt |-> <<>>, nonce |-> <<>>]}
    \cup {[err |-> "nonce", salt |-> s, nonce |-> <<>>] : s \in Salts}

\* Encrypt that puts the nonce after the sealed bytes
EncryptNonceLast(t, plaintext, rand) ==
    IF rand.err # "nil" THEN [err |-> ErrRand, val |-> NilSlice]
    ELSE LET key == Pbkdf2Key(t.passphrase, rand.salt)
         IN  [err |-> NoErr,
              val |-> Slice(rand.salt \o Seal(key, <<>>, rand.nonce, plaintext) \o rand.nonce)]

\* TokenEncryption.Encrypt, lines 102-135
Encrypt(t, plaintext, rand) ==
    IF rand.err = "salt" THEN [err |-> ErrRand, val |-> NilSlice]
    ELSE LET key == Pbkdf2Key(t.passphrase, rand.salt)
         IN  IF rand.err = "nonce" THEN [err |-> ErrRand, val |-> NilSlice]
             ELSE LET ciphertext == Seal(key, rand.nonce, rand.nonce, plaintext)
                  IN  [err |-> NoErr, val |-> Slice(rand.salt \o ciphertext)]

\* Decrypt that leaves a truncated nonce to gcm.Open
DecryptNonceUnchecked(t, data) ==
    IF Len(data) < SaltSize
    THEN [err |-> ErrorString("encrypted data too short"), val |-> NilSlice]
    ELSE IF Len(data) < SaltSize + NonceSize THEN [err |-> ErrOpen, val |-> NilSlice]
    ELSE LET salt == SubSeq(data, 1, SaltSize)
             ciphertext == SubSeq(data, SaltSize + 1, Len(data))
         IN  Open(Pbkdf2Key(t.passphrase, salt), SubSeq(ciphertext, 1, NonceSize),
                  SubSeq(ciphertext, NonceSize + 1, Len(ciphertext)))

\* TokenEncryption.Decrypt, lines 138-173
Decrypt(t, data) ==
    IF Len(data) < SaltSize
    THEN [err |-> ErrorString("encrypted data too short"), val |-> NilSlice]
    ELSE LET salt == SubSeq(data, 1, SaltSize)
             ciphertext == SubSeq(data, SaltSize + 1, Len(data))
             key == Pbkdf2Key(t.passphrase, salt)
         IN  IF Len(ciphertext) < NonceSize
             THEN [err |-> ErrorString("ciphertext too short"), val |-> NilSlice]
             ELSE Open(key, SubSeq(ciphertext, 1, NonceSize),
                       SubSeq(ciphertext, NonceSize + 1, Len(ciphertext)))

\* the plaintexts given to Encrypt: every byte string of at most MaxPlain
\* bytes over three byte values
MaxPlain == 2
Plaintexts == SeqUpTo({0, 123, 255}, MaxPlain)

\* what is added to a byte to change it
Deltas == {1, 128, 255}

\* the process builds its TokenEncryption
CryptoInit ==
    /\ limTokens = Burst * OneToken
    /\ limLastEvent = 0
    /\ NoCallInFlight
    /\ spendable = NotCounted
    /\ allowLog = NoLog
    /\ mon = MonIdle
    /\ apiRequestsTotal = Made(0)
    /\ apiErrorsTotal = [o \in Operations |-> [t \in ErrorTypes |-> 0]]
    /\ rateLimitHitsTotal = 0
    /\ apiResponseDuration = Made(0)
    /\ lastCall = NoCall
    /\ mem = NoStrings
    /\ \E h \in Hostnames : te = NewTokenEncryption(h)
    /\ encrypted = NoBytes
    /\ decrypted = NotDecrypted
    /\ disk = [dir |-> FALSE, file |-> Nil, umask |-> {}]
    /\ repoCall = NoRepoCall
    /\ NoApp

\* encrypted, err := te.Encrypt(plaintext)
CallEncrypt(plaintext, rand) ==
    /\ ~encrypted.made
    /\ LET r == Encrypt(te, plaintext, rand) IN
        encrypted' = IF r.err # NoErr THEN encrypted
                     ELSE [made |-> TRUE, plaintext |-> plaintext, data |-> r.val.elems,
                           changed |-> "nothing"]
    /\ UNCHANGED <<rlVars, metricVars, lastCall, mem, te, decrypted, disk, repoCall, appVars>>

\* the holder of the bytes changes the byte at position i
ChangeByte(i, d) ==
    /\ encrypted.made
    /\ encrypted.changed = "nothing"
    /\ ~decrypted.done
    /\ i \in 1..Len(encrypted.data)
    /\ encrypted' = [encrypted EXCEPT !.data[i] = (@ + d) % 256, !.changed = "byte"]
    /\ UNCHANGED <<rlVars, metricVars, lastCall, mem, te, decrypted, disk, repoCall, appVars>>

\* the holder of the bytes keeps the first n of them
Truncate(n) ==
    /\ encrypted.made
    /\ encrypted.changed = "nothing"
    /\ ~decrypted.done
    /\ n < Len(encrypted.data)
    /\ encrypted' = [encrypted EXCEPT !.data = SubSeq(@, 1, n), !.changed = "length"]
    /\ UNCHANGED <<rlVars, metricVars, lastCall, mem, te, decrypted, disk, repoCall, appVars>>

\* plaintext, err := te.Decrypt(encrypted)
CallDecrypt ==
    /\ encrypted.made
    /\ ~decrypted.done
    /\ LET r == Decrypt(te, encrypted.data) IN
        decrypted' = [err |-> r.err, val |-> r.val, done |-> TRUE]
    /\ UNCHANGED <<rlVars, metricVars, lastCall, mem, te, encrypted, disk, repoCall, appVars>>

CryptoNext ==
    \/ \E plaintext \in Plaintexts, rand \in Draws : CallEncrypt(plaintext, rand)
    \/ \E i \in 1..(SaltSize + NonceSize + MaxPlain + TagSize), d \in Deltas : ChangeByte(i, d)
    \/ \E n \in 0..(SaltSize + NonceSize + MaxPlain + TagSize) : Truncate(n)
    \/ CallDecrypt

SpecCrypto == CryptoInit /\ [][CryptoNext]_vars

----------------------------------------------------------------------------
(* oauth2.Token and encoding/json, as TokenFileRepo uses them.  Go strings  *)
(* are byte strings; a document is the byte string json.Marshal writes.    *)

\* an oauth2.Token
Token(access, type, refresh, expiry) ==
    [nil |-> FALSE, AccessToken |-> access, TokenType |-> type,
     RefreshToken |-> refresh, Expiry |-> expiry]

\* a time.Time on the first of January of a year: the minute of that day (UTC),
\* the nanoseconds past the minute, the zone offset in minutes, and whether
\* it carries a monotonic clock reading
Time(year, min, nsec, offset, mono) ==
    [year |-> year, min |-> min, nsec |-> nsec, offset |-> offset, mono |-> mono]

\* the instant of a time.Time, what Time.Equal compares
Instant(t) == <<t.year, t.min, t.nsec>>

\* the decimal digits of n in w places
RECURSIVE PadN(_, _)
PadN(n, w) == IF w = 0 THEN <<>> ELSE PadN(n \div 10, w - 1) \o <<48 + (n % 10)>>

\* the value of a string of decimal digits
RECURSIVE Atoi(_)
Atoi(b) == IF Len(b) = 0 THEN 0 ELSE 10 * Atoi(SubSeq(b, 1, Len(b) - 1)) + (b[Len(b)] - 48)

IsDigits(b) == \A i \in 1..Len(b) : b[i] \in 48..57

RECURSIVE TrimZeros(_)
TrimZeros(b) ==
    IF Len(b) > 0 /\ b[Len(b)] = 48 THEN TrimZeros(SubSeq(b, 1, Len(b) - 1)) ELSE b

\* Time.Format(time.RFC3339Nano): "2006-01-02T15:04:05.999999999Z07:00"
FormatRFC3339Nano(t) ==
    LET local == t.min + t.offset
        abs == IF t.offset < 0 THEN 0 - t.offset ELSE t.offset
    IN  PadN(t.year, 4) \o <<45, 48, 49, 45, 48, 49, 84>>
        \o PadN(local \div 60, 2) \o <<58>> \o PadN(local % 60, 2) \o <<58, 48, 48>>
        \o (IF t.nsec = 0 THEN <<>> ELSE <<46>> \o TrimZeros(PadN(t.nsec, 9)))
        \o (IF t.offset = 0 THEN <<90>>
            ELSE <<IF t.offset < 0 THEN 45 ELSE 43>> \o PadN(abs \div 60, 2)
                 \o <<58>> \o PadN(abs % 60, 2))

\* the fraction of a second that starts at position i of b: its digits
RECURSIVE FracDigits(_, _)
FracDigits(b, i) ==
    IF i <= Len(b) /\ b[i] \in 48..57 THEN <<b[i]>> \o FracDigits(b, i + 1) ELSE <<>>

\* time.Parse(time.RFC3339, b) of Time.UnmarshalJSON, for the first of January
ParseTime(b) ==
    LET bad == [err |-> "parsing time", t |-> Time(1, 0, 0, 0, FALSE)]
    IN  IF Len(b) < 20 THEN bad
        ELSE IF ~( /\ IsDigits(SubSeq(b, 1, 4))
                   /\ SubSeq(b, 5, 11) = <<45, 48, 49, 45, 48, 49, 84>>
                   /\ IsDigits(SubSeq(b, 12, 13)) /\ b[14] = 58
                   /\ IsDigits(SubSeq(b, 15, 16))
                   /\ SubSeq(b, 17, 19) = <<58, 48, 48>> ) THEN bad
        ELSE LET frac == IF b[20] = 46 THEN FracDigits(b, 21) ELSE <<>>
                 z == IF b[20] = 46 THEN 21 + Len(frac) ELSE 20
                 nsec == Atoi(frac \o PadN(0, 9 - Len(frac)))
                 local == 60 * Atoi(SubSeq(b, 12, 13)) + Atoi(SubSeq(b, 15, 16))
                 year == Atoi(SubSeq(b, 1, 4))
             IN  IF (b[20] = 46 /\ Len(frac) \notin 1..9) \/ z > Len(b) THEN bad
                 ELSE IF b[z] = 90
                 THEN IF z = Len(b) THEN [err |-> "nil", t |-> Time(year, local, nsec, 0, FALSE)]
                      ELSE bad
                 ELSE IF /\ b[z] \in {43, 45} /\ Len(b) = z + 5
                         /\ IsDigits(SubSeq(b, z + 1, z + 2)) /\ b[z + 3] = 58
                         /\ IsDigits(SubSeq(b, z + 4, z + 5))
                 THEN LET abs == 60 * Atoi(SubSeq(b, z + 1, z + 2)) + Atoi(SubSeq(b, z + 4, z + 5))
                          offset == IF b[z] = 45 THEN 0 - abs ELSE abs
                      IN  [err |-> "nil", t |-> Time(year, local - offset, nsec, offset, FALSE)]
                 ELSE bad

\* a hexadecimal digit, as encoding/json writes and reads it
HexDigit(n) == IF n < 10 THEN 48 + n ELSE 87 + n
HexValue(c) == IF c \in 48..57 THEN c - 48 ELSE IF c \in 97..102 THEN c - 87
               ELSE IF c \in 65..70 THEN c - 55 ELSE -1

\* a string written into the document as it is, between quotes
Unescaped(s) == <<34>> \o s \o <<34>>

\* the bytes encoding/json writes for the byte c of a string (ASCII; a byte
\* that is not part of valid UTF-8 is written as the replacement character)
Escape(c) ==
    IF c = 34 THEN <<92, 34>>
    ELSE IF c = 92 THEN <<92, 92>>
    ELSE IF c = 10 THEN <<92, 110>>
    ELSE IF c = 13 THEN <<92, 114>>
    ELSE IF c = 9 THEN <<92, 116>>
    ELSE IF c < 32 \/ c \in {60, 62, 38}
    THEN <<92, 117, 48, 48>> \o <<HexDigit(c \div 16), HexDigit(c % 16)>>
    ELSE IF c < 128 THEN <<c>>
    ELSE <<92, 117, 102, 102, 102, 100>>

\* a string as encoding/json writes it (encodeState.string, with escapeHTML)
RECURSIVE Escaped(_)
Escaped(s) ==
    IF Len(s) = 0 THEN <<>>
    ELSE IF Len(s) = 1 THEN Escape(s[1])
    ELSE Escaped(SubSeq(s, 1, Len(s) \div 2)) \o Escaped(SubSeq(s, (Len(s) \div 2) + 1, Len(s)))
Quote(s) == <<34>> \o Escaped(s) \o <<34>>

\* the member names of the JSON object of an oauth2.Token, with what
\* precedes them in the document: {"access_token":  ,"token_type":
\* ,"refresh_token":  ,"expiry":
Keys ==
    [type |-> <<44, 34, 116, 111, 107, 101, 110, 95, 116, 121, 112, 101, 34, 58>>,
     access |-> <<123, 34, 97, 99, 99, 101, 115, 115, 95, 116, 111, 107, 101, 110, 34, 58>>,
     refresh |-> <<44, 34, 114, 101, 102, 114, 101, 115, 104, 95, 116, 111, 107, 101, 110, 34, 58>>,
     expiry |-> <<44, 34, 101, 120, 112, 105, 114, 121, 34, 58>>]

\* an error of encoding/json: *json.MarshalerError of Time.MarshalJSON,
\* *json.SyntaxError, *time.ParseError
JSONError(type, text) ==
    [type |-> type, op |-> "", msg |-> <<text>>, code |-> 0, cause |-> "nil"]

\* json.Marshal(token) for a *oauth2.Token: token_type and refresh_token are
\* omitted when empty
Marshal(token) ==
    IF token.nil THEN [err |-> NoErr, val |-> Slice(<<110, 117, 108, 108>>)]
    ELSE IF token.Expiry.year \notin 0..9999 THEN [err |-> JSONError("MarshalerError", "Time.MarshalJSON: year outside of range [0,9999]"),
          val |-> NilSlice]
    ELSE [err |-> NoErr,
          val |-> Slice(Keys.access \o Quote(token.AccessToken)
                        \o (IF Len(token.TokenType) = 0 THEN <<>>
                            ELSE Keys.type \o Quote(token.TokenType))
                        \o (IF Len(token.RefreshToken) = 0 THEN <<>>
                            ELSE Keys.refresh \o Quote(token.RefreshToken))
                        \o Keys.expiry \o <<34>> \o FormatRFC3339Nano(token.Expiry)
                        \o <<34, 125>>)]

\* whether the bytes lit stand at position i of b
Expect(b, i, lit) == i + Len(lit) - 1 <= Len(b) /\ SubSeq(b, i, i + Len(lit) - 1) = lit

\* the scanner inside a string literal at position j of b, acc decoded so far:
\* whether the literal is well formed, the string, and the position behind
\* the closing quote
RECURSIVE ScanChars(_, _, _)
ScanChars(b, j, acc) ==
    LET bad == [ok |-> FALSE, val |-> <<>>, next |-> j]
    IN  IF j > Len(b) THEN bad
        ELSE IF b[j] = 34 THEN [ok |-> TRUE, val |-> acc, next |-> j + 1]
        ELSE IF b[j] < 32 THEN bad
        ELSE IF b[j] # 92 THEN ScanChars(b, j + 1, acc \o <<b[j]>>)
        ELSE IF j + 1 > Len(b) THEN bad
        ELSE IF b[j + 1] \in {34, 92, 47} THEN ScanChars(b, j + 2, acc \o <<b[j + 1]>>)
        ELSE IF b[j + 1] = 110 THEN ScanChars(b, j + 2, acc \o <<10>>)
        ELSE IF b[j + 1] = 114 THEN ScanChars(b, j + 2, acc \o <<13>>)
        ELSE IF b[j + 1] = 116 THEN ScanChars(b, j + 2, acc \o <<9>>)
        ELSE IF b[j + 1] = 117 /\ j + 5 <= Len(b)
                /\ \A k \in 2..5 : HexValue(b[j + k]) >= 0
        THEN LET r == 4096 * HexValue(b[j + 2]) + 256 * HexValue(b[j + 3])
                      + 16 * HexValue(b[j + 4]) + HexValue(b[j + 5])
             IN  IF r < 128 THEN ScanChars(b, j + 6, acc \o <<r>>)
                 ELSE IF r = 65533 THEN ScanChars(b, j + 6, acc \o <<239, 191, 189>>)
                 ELSE bad
        ELSE bad

\* a string literal at position i of b
ScanString(b, i) ==
    IF i <= Len(b) /\ b[i] = 34 THEN ScanChars(b, i + 1, <<>>)
    ELSE [ok |-> FALSE, val |-> <<>>, next |-> i]

\* the member key with a string value at position i of b; when the key is
\* not there, the empty string and the same position
Member(b, i, key) ==
    IF Expect(b, i, key) THEN ScanString(b, i + Len(key))
    ELSE [ok |-> TRUE, val |-> <<>>, next |-> i]

\* json.Unmarshal(data, &token) for an oauth2.Token, for the documents that
\* Marshal writes; any other byte string counts as malformed
Unmarshal(data) ==
    LET bad == [err |-> JSONError("SyntaxError", "invalid character"), val |-> Nil]
        access == IF Expect(data, 1, Keys.access)
                  THEN ScanString(data, 1 + Len(Keys.access))
                  ELSE [ok |-> FALSE, val |-> <<>>, next |-> 1]
        type == Member(data, access.next, Keys.type)
        refresh == Member(data, type.next, Keys.refresh)
        expiry == IF Expect(data, refresh.next, Keys.expiry)
                  THEN ScanString(data, refresh.next + Len(Keys.expiry))
                  ELSE [ok |-> FALSE, val |-> <<>>, next |-> 1]
    IN  IF ~access.ok THEN bad
        ELSE IF ~type.ok THEN bad
        ELSE IF ~refresh.ok THEN bad
        ELSE IF ~expiry.ok THEN bad
        ELSE IF ~(expiry.next = Len(data) /\ data[expiry.next] = 125) THEN bad
        ELSE IF ParseTime(expiry.val).err # "nil" THEN [err |-> JSONError("ParseError", "parsing time"), val |-> Nil]
        ELSE [err |-> NoErr,
              val |-> Token(access.val, type.val, refresh.val, ParseTime(expiry.val).t)]

----------------------------------------------------------------------------
(* The file system under os.WriteFile and os.ReadFile, and TokenFileRepo,  *)
(* internal/infrastructure/repository/token_file_repo.go.  Permission bits *)
(* are sets of bits; the process is not the superuser.                     *)

Perm0600 == {"u+r", "u+w"}

\* the modes of a token file that exists when the process starts: 0600, 0644
\* and 0400
OldPerms == {Perm0600, {"u+r", "u+w", "g+r", "o+r"}, {"u+r"}}

\* the umask of the process: 022 or 077
Umasks == {{"g+w", "o+w"}, {"g+r", "g+w", "g+x", "o+r", "o+w", "o+x"}}

\* a regular file
File(data, perm) == [nil |-> FALSE, data |-> data, perm |-> perm]

\* *fs.PathError of the system call op with the errno
PathError(op, errno) ==
    [type |-> "PathError", op |-> op, msg |-> <<errno>>, code |-> 0, cause |-> errno]

\* what stops the Write of os.WriteFile: nothing, or the device is full once
\* that many bytes are written
WriteFaults ==
    {[err |-> "nil", n |-> 0]} \cup {[err |-> "ENOSPC", n |-> n] : n \in {0, SaltSize + NonceSize}}

\* os.WriteFile that creates the directories of the path first
WriteFileMkdirAll(d, data, perm, fault) ==
    [err |-> NoErr, disk |-> [d EXCEPT !.dir = TRUE, !.file = File(data, perm \ d.umask)]]

\* os.WriteFile(name, data, perm): OpenFile(name, O_WRONLY|O_CREATE|O_TRUNC,
\* perm), Write, Close.  perm (less the umask) applies when the file is
\* created; an existing file is truncated and keeps its mode.
WriteFile(d, data, perm, fault) ==
    IF ~d.dir THEN [err |-> PathError("open", "ENOENT"), disk |-> d]
    ELSE IF ~d.file.nil /\ "u+w" \notin d.file.perm
    THEN [err |-> PathError("open", "EACCES"), disk |-> d]
    ELSE LET mode == IF d.file.nil THEN perm \ d.umask ELSE d.file.perm
         IN  IF fault.err = "nil" \/ fault.n >= Len(data)
             THEN [err |-> NoErr, disk |-> [d EXCEPT !.file = File(data, mode)]]
             ELSE [err |-> PathError("write", fault.err),
                   disk |-> [d EXCEPT !.file = File(SubSeq(data, 1, fault.n), mode)]]

\* os.ReadFile that takes a missing file for an empty one
ReadFileMissingAsEmpty(d) ==
    IF ~d.dir \/ d.file.nil THEN [err |-> NoErr, val |-> Slice(<<>>)]
    ELSE [err |-> NoErr, val |-> Slice(d.file.data)]

\* os.ReadFile(name)
ReadFile(d) ==
    IF ~d.dir \/ d.file.nil THEN [err |-> PathError("open", "ENOENT"), val |-> NilSlice]
    ELSE IF "u+r" \notin d.file.perm THEN [err |-> PathError("open", "EACCES"), val |-> NilSlice]
    ELSE [err |-> NoErr, val |-> Slice(d.file.data)]

\* what a Save call has done: the error it returns, the file system it leaves,
\* the document it marshalled and the bytes Encrypt returned (empty when it
\* did not get there)
Saved(err, d, plaintext, sealed) ==
    [err |-> err, disk |-> d, plaintext |-> plaintext, sealed |-> sealed]

\* Save that writes the document it marshalled
SaveUnencrypted(t, d, token, rand, fault) ==
    IF token.nil THEN Saved(ErrorString("token cannot be nil"), d, <<>>, <<>>)
    ELSE LET data == Marshal(token)
             w == WriteFile(d, data.val.elems, Perm0600, fault)
         IN  IF data.err # NoErr THEN Saved(data.err, d, <<>>, <<>>)
             ELSE Saved(w.err, w.disk, data.val.elems, <<>>)

\* Save that takes any token
SaveUnvalidated(t, d, token, rand, fault) ==
    LET data == Marshal(token)
        encryptedData == Encrypt(t, data.val.elems, rand)
        w == WriteFile(d, encryptedData.val.elems, Perm0600, fault)
    IN  IF data.err # NoErr THEN Saved(data.err, d, <<>>, <<>>)
        ELSE IF encryptedData.err # NoErr
        THEN Saved(encryptedData.err, d, data.val.elems, <<>>)
        ELSE Saved(w.err, w.disk, data.val.elems, encryptedData.val.elems)

\* TokenFileRepo.Save, lines 50-66, of the repository with the TokenEncryption
\* t on the file system d
Save(t, d, token, rand, fault) ==
    IF token.nil THEN Saved(ErrorString("token cannot be nil"), d, <<>>, <<>>)
    ELSE LET data == Marshal(token)
             encryptedData == Encrypt(t, data.val.elems, rand)
             w == WriteFile(d, encryptedData.val.elems, Perm0600, fault)
         IN  IF data.err # NoErr THEN Saved(data.err, d, <<>>, <<>>)
             ELSE IF encryptedData.err # NoErr
             THEN Saved(encryptedData.err, d, data.val.elems, <<>>)
             ELSE Saved(w.err, w.disk, data.val.elems, encryptedData.val.elems)

\* TokenFileRepo.Load, lines 69-86
Load(t, d) ==
    LET encryptedData == ReadFile(d)
        data == Decrypt(t, encryptedData.val.elems)
        token == Unmarshal(data.val.elems)
    IN  IF encryptedData.err # NoErr THEN [err |-> encryptedData.err, val |-> Nil]
        ELSE IF data.err # NoErr THEN [err |-> data.err, val |-> Nil]
        ELSE IF token.err # NoErr THEN [err |-> token.err, val |-> Nil]
        ELSE [err |-> NoErr, val |-> token.val]

\* the strings of a token, ASCII: "Bearer", the access tokens "ya29.a" and
\* one of a quote, a backslash, a less-than sign and a line feed, which
\* encoding/json escapes, and the refresh token "1//r&"
Strings ==
    [type |-> <<66, 101, 97, 114, 101, 114>>, access |-> <<121, 97, 50, 57, 46, 97>>, refresh |-> <<49, 47, 47, 114, 38>>, escaped |-> <<34, 92, 60, 10>>]

\* the tokens Save is called with: a token of time.Now() with its monotonic
\* clock reading; one whose strings need escaping, with a fraction of a
\* second and a zone; one with no type, no refresh token and the zero time;
\* and one of a year that Time.MarshalJSON refuses
Tokens ==
    {Token(Strings.access, Strings.type, Strings.refresh, Time(2024, 600, 0, 0, TRUE)),
     Token(Strings.escaped, Strings.type, Strings.refresh, Time(2024, 600, 500000000, -90, FALSE)),
     Token(Strings.access, <<>>, <<>>, Time(1, 0, 0, 0, FALSE)),
     Token(Strings.access, Strings.type, Strings.refresh, Time(10000, 0, 0, 0, FALSE))}

\* what rand.Reader delivers to the Encrypt of a Save
SaveDraws == {d \in Draws : d.err = "salt" \/ d.salt[1] = 0}

\* what the token file holds when the process starts: the token of an earlier
\* process of this machine, with any of the modes; the bytes "invalid data";
\* the encryption of these bytes; the token of a process of another machine
OldFiles(t) ==
    LET old == Marshal(Token(<<111, 108, 100>>, Strings.type, <<>>, Time(2024, 0, 0, 0, FALSE))).val.elems
        invalid == <<105, 110, 118, 97, 108, 105, 100, 32, 100, 97, 116, 97>>
        rand == [err |-> "nil", salt |-> [i \in 1..SaltSize |-> (7 * i) % 256],
                 nonce |-> [i \in 1..NonceSize |-> (11 * i) % 256]]
    IN  {File(Encrypt(t, old, rand).val.elems, p) : p \in OldPerms}
        \cup {File(invalid, Perm0600),
              File(Encrypt(t, invalid, rand).val.elems, Perm0600),
              File(Encrypt(NewTokenEncryption(<<99>>), old, rand).val.elems, Perm0600)}

\* the number of Save calls of a run
MaxSaves == 2

\* NewTokenFileRepo(configDir), lines 21-31: the directory may not exist
StoreInit ==
    /\ limTokens = Burst * OneToken
    /\ limLastEvent = 0
    /\ NoCallInFlight
    /\ spendable = NotCounted
    /\ allowLog = NoLog
    /\ mon = MonIdle
    /\ apiRequestsTotal = Made(0)
    /\ apiErrorsTotal = [o \in Operations |-> [t \in ErrorTypes |-> 0]]
    /\ rateLimitHitsTotal = 0
    /\ apiResponseDuration = Made(0)
    /\ lastCall = NoCall
    /\ mem = NoStrings
    /\ te = NewTokenEncryption(<<97>>)
    /\ encrypted = NoBytes
    /\ decrypted = NotDecrypted
    /\ \/ \E u \in Umasks : disk = [dir |-> TRUE, file |-> Nil, umask |-> u]
       \/ \E d \in BOOLEAN, f \in OldFiles(te) :
                disk = [dir |-> d, file |-> IF d THEN f ELSE Nil, umask |-> {"g+w", "o+w"}]
    /\ repoCall = NoRepoCall
    /\ NoApp

\* err := repo.Save(token)
CallSave(token, rand, fault) ==
    /\ repoCall.n < MaxSaves
    /\ LET s == Save(te, disk, token, rand, fault) IN
        /\ disk' = s.disk
        /\ repoCall' = [op |-> "Save", err |-> s.err, n |-> repoCall.n + 1,
                        val |-> Nil, plaintext |-> s.plaintext,
                        token |-> token, before |-> disk, sealed |-> s.sealed,
                        saved |-> s.err]
    /\ UNCHANGED <<rlVars, metricVars, lastCall, mem, te, encrypted, decrypted, appVars>>

\* token, err := repo.Load()
CallLoad ==
    /\ LET l == Load(te, disk) IN
        repoCall' = [repoCall EXCEPT !.op = "Load", !.err = l.err, !.val = l.val]
    /\ UNCHANGED <<rlVars, metricVars, lastCall, mem, te, encrypted, decrypted, disk, appVars>>

StoreNext ==
    \/ \E token \in Tokens \cup {Nil}, rand \in SaveDraws, fault \in WriteFaults :
            CallSave(token, rand, fault)
    \/ CallLoad

SpecStore == StoreInit /\ [][StoreNext]_vars

----------------------------------------------------------------------------
(* usecase.CreateEventUseCase, internal/usecase/create_event.go.  Its     *)
(* repository is an EventRepository: the GoogleCalendarAdapter in the      *)
(* server, and in the tests a mockEventRepository that returns the event   *)
(* and the error it was built with.                                        *)

\* the events a repository was built to return: none, or an event with an
\* identifier that passes Validate or does not
RepoEvents ==
    {Nil} \cup {Event("event1", t, "", s, s, Nil, NilSlice) :
                    t \in Titles, s \in {d \in DateTimes : d.dateTime # "tomorrow"}}

\* the mockEventRepository values
Repos == {[err |-> e, event |-> v] : v \in RepoEvents, e \in {"nil", "repository error"}}

\* mockEventRepository.CreateEvent, create_event_test.go:16-21
MockCreateEvent(m, calendarID, event) ==
    IF m.err # "nil" THEN [err |-> m.err, val |-> Nil] ELSE [err |-> "nil", val |-> m.event]

\* what a call of Execute comes to: the error and the event it returns, the
\* number of calls it made to the repository, and whether it panicked
\* instead of returning
Executed(err, val, calls, panic) ==
    [err |-> err, val |-> val, calls |-> calls, panic |-> panic]

\* CreateEventUseCase.Execute, lines 24-43.  createdEvent.Validate() reads
\* e.Title (calendar.go:47): on a nil createdEvent that is a nil pointer
\* dereference, and the call panics.
Execute(repo, calendarID, event) ==
    IF event.nil THEN Executed("event cannot be nil", Nil, 0, FALSE)
    ELSE IF Validate(event) # "nil" THEN Executed(Validate(event), Nil, 0, FALSE)
    ELSE LET r == MockCreateEvent(repo, calendarID, event) IN
         IF r.err # "nil" THEN Executed(r.err, Nil, 1, FALSE)
         ELSE IF r.val.nil
         THEN Executed("invalid memory address or nil pointer dereference", Nil, 1, TRUE)
         ELSE IF Validate(r.val) # "nil" THEN Executed(Validate(r.val), Nil, 1, FALSE)
         ELSE Executed("nil", r.val, 1, FALSE)

\* a use case built on a repository (NewCreateEventUseCase, lines 18-22)
\* that has not been called
UCInit ==
    /\ Quiet
    /\ envCall = NoEnvCall
    /\ authFlow = NoAuthFlow
    /\ \E repo \in Repos : ucCall = [NoUcCall EXCEPT !.repo = repo]
    /\ savers = NoSavers
    /\ cb = NoServer
    /\ rpc = NoRpc

\* event, err := uc.Execute(ctx, calendarID, event)
CallExecute(calendarID, event) ==
    /\ ucCall' = [out |-> Execute(ucCall.repo, calendarID, event),
                  calendarID |-> calendarID, event |-> event, done |-> TRUE,
                  repo |-> ucCall.repo]
    /\ UNCHANGED <<rlVars, metricVars, lastCall, mem, storeVars>>
    /\ UNCHANGED <<envCall, authFlow, savers, cb, rpc>>

UCNext == \E calendarID \in CalendarIDs, event \in Events \cup {Nil} : CallExecute(calendarID, event)

SpecUC == UCInit /\ [][UCNext]_vars

----------------------------------------------------------------------------
(* config.GetCredentialsPath, pkg/config/config.go:74-94.  A path is the   *)
(* sequence of its elements, "/" first if it is rooted; the empty string   *)
(* is the empty sequence.  Symbolic links are left out.                    *)

\* errors.NewConfigError, pkg/errors/errors.go:38-44
NewConfigError(field, message, err) ==
    [type |-> "ConfigError", op |-> field, msg |-> message, code |-> 0, cause |-> err]

\* config.go:16
EnvCredentialsPath == "GCAL_CREDENTIALS_PATH"

\* os.Getenv: the value of the variable, "" if it is not set
Getenv(environ, key) == IF key \in DOMAIN environ THEN environ[key] ELSE <<>>

IsAbs(path) == Len(path) > 0 /\ path[1] = "/"

\* filepath.Clean of the first n elements of path: "." is dropped, ".."
\* takes the element before it away, except at the root and after ".."
RECURSIVE CleanN(_, _)
CleanN(path, n) ==
    IF n = 0 THEN <<>>
    ELSE LET c == CleanN(path, n - 1)
             e == path[n]
         IN  IF e = "." THEN c
             ELSE IF e # ".." THEN Append(c, e)
             ELSE IF c = <<>> \/ c[Len(c)] = ".." THEN Append(c, e)
             ELSE IF c = <<"/">> THEN c
             ELSE SubSeq(c, 1, Len(c) - 1)

\* filepath.Clean
Clean(path) == IF CleanN(path, Len(path)) = <<>> THEN <<".">> ELSE CleanN(path, Len(path))

\* filepath.Abs: wd is what os.Getwd returns
Abs(path, wd) ==
    IF IsAbs(path) THEN [err |-> "nil", val |-> Clean(path)]
    ELSE IF wd.err # "nil" THEN [err |-> wd.err, val |-> <<>>]
    ELSE [err |-> "nil", val |-> Clean(wd.val \o path)]

\* os.Stat of the rooted path name in the file system fs (a function from
\* the paths there are to "file", "dir", or "locked" for a directory that
\* the process may not search): the errno, "nil" for none
RECURSIVE StatN(_, _, _)
StatN(fs, name, n) ==
    LET parent == IF n = 1 THEN "nil" ELSE StatN(fs, name, n - 1)
        dir == SubSeq(name, 1, n - 1)
    IN  IF parent # "nil" THEN parent
        ELSE IF n > 1 /\ fs[dir] = "file" THEN "ENOTDIR"
        ELSE IF n > 1 /\ fs[dir] = "locked" THEN "EACCES"
        ELSE IF SubSeq(name, 1, n) \notin DOMAIN fs THEN "ENOENT"
        ELSE "nil"

\* a stat that finds whatever it is asked for
StatAnything(fs, name) == "nil"

Stat(fs, name) == StatN(fs, name, Len(name))

\* os.IsNotExist
IsNotExist(errno) == errno = "ENOENT"

\* GetCredentialsPath in the environment environ, with working directory wd
\* and file system fs
GetCredentialsPath(environ, wd, fs) ==
    LET path == Getenv(environ, EnvCredentialsPath)
        abs == Abs(path, wd)
        st == Stat(fs, abs.val)
    IN  IF path = <<>>
        THEN [err |-> NewConfigError(EnvCredentialsPath, <<"environment variable not set">>, "nil"),
              val |-> <<>>]
        ELSE IF abs.err # "nil"
        THEN [err |-> NewConfigError("credentials", <<"failed to resolve absolute path">>, abs.err),
              val |-> <<>>]
        ELSE IF st # "nil"
        THEN [err |-> NewConfigError("credentials",
                        IF IsNotExist(st) THEN <<"file does not exist">>
                        ELSE <<"failed to access file">>, st),
              val |-> <<>>]
        ELSE [err |-> NoErr, val |-> abs.val]

\* the values the variable is given
EnvValues ==
    { <<>>, <<"credentials.json">>, <<".", "credentials.json">>,
      <<"cfg", "credentials.json">>, <<"/", "cfg", "credentials.json">>,
      <<"/", "cfg", "..", "cfg", "credentials.json">>, <<"/", "cfg">>,
      <<"/", "cfg", "missing.json">>, <<"..", "credentials.json">> }

\* the environments: the variable is not set, or set to one of the values
Environs == {<<>>} \cup {[k \in {EnvCredentialsPath} |-> v] : v \in EnvValues}

\* what os.Getwd returns: a directory, or the error of a process whose
\* working directory was removed
WorkDirs == {[err |-> "nil", val |-> <<"/">>], [err |-> "nil", val |-> <<"/", "cfg">>],
             [err |-> "ENOENT", val |-> <<>>]}

\* the file systems: /cfg is a directory with or without credentials.json,
\* a directory the process may not search, or a plain file
FileSystems ==
    { (<<"/">> :> "dir") @@ (<<"/", "cfg">> :> "dir"),
      (<<"/">> :> "dir") @@ (<<"/", "cfg">> :> "dir")
            @@ (<<"/", "cfg", "credentials.json">> :> "file"),
      (<<"/">> :> "dir") @@ (<<"/", "cfg">> :> "locked")
            @@ (<<"/", "cfg", "credentials.json">> :> "file"),
      (<<"/">> :> "dir") @@ (<<"/", "cfg">> :> "file"),
      (<<"/">> :> "dir") @@ (<<"/", "credentials.json">> :> "file") }

\* the process at startup
EnvInit ==
    /\ Quiet
    /\ \E environ \in Environs, wd \in WorkDirs, fs \in FileSystems :
            envCall = [NoEnvCall EXCEPT !.environ = environ, !.wd = wd, !.fs = fs]
    /\ authFlow = NoAuthFlow
    /\ ucCall = NoUcCall
    /\ savers = NoSavers
    /\ cb = NoServer
    /\ rpc = NoRpc

\* credPath, err := config.GetCredentialsPath()  (main.go:67)
CallGetCredentialsPath ==
    /\ ~envCall.done
    /\ LET r == GetCredentialsPath(envCall.environ, envCall.wd, envCall.fs) IN
        envCall' = [envCall EXCEPT !.done = TRUE, !.err = r.err, !.val = r.val]
    /\ UNCHANGED <<rlVars, metricVars, lastCall, mem, storeVars>>
    /\ UNCHANGED <<authFlow, ucCall, savers, cb, rpc>>

EnvNext == CallGetCredentialsPath

SpecEnv == EnvInit /\ [][EnvNext]_vars

----------------------------------------------------------------------------
(* config.AuthFlow, pkg/config/oauth.go:38-123, on the token store above.  *)
(* The browser, the callback server (startLocalServer, modelled further    *)
(* down) and the token endpoint are the environment of the call.           *)

\* errors.NewOAuthError, pkg/errors/errors.go:65-71
NewOAuthError(operation, message, err) ==
    [type |-> "OAuthError", op |-> operation, msg |-> message, code |-> 0, cause |-> err]

\* the rate limiter and the adapter of a process that has not used them
Fresh ==
    /\ limTokens = Burst * OneToken
    /\ limLastEvent = 0
    /\ NoCallInFlight
    /\ spendable = NotCounted
    /\ allowLog = NoLog
    /\ mon = MonIdle
    /\ apiRequestsTotal = Made(0)
    /\ apiErrorsTotal = [o \in Operations |-> [t \in ErrorTypes |-> 0]]
    /\ rateLimitHitsTotal = 0
    /\ apiResponseDuration = Made(0)
    /\ lastCall = NoCall
    /\ mem = NoStrings

\* a token that is taken for valid whatever it holds
ValidAlways(token, now) == TRUE

\* oauth2.Token.Valid at the time now: the access token is not empty, and
\* the expiry is the zero time or not earlier than 10s from now
\* (defaultExpiryDelta)
Valid(token, now) ==
    LET e == token.Expiry
        secs(t) == t.min * 60 + t.nsec \div 1000000000
        frac(t) == t.nsec % 1000000000
        expired ==
            /\ Instant(e) # <<1, 0, 0>>
            /\ \/ e.year < now.year
               \/ /\ e.year = now.year
                  /\ \/ secs(e) - 10 < secs(now)
                     \/ secs(e) - 10 = secs(now) /\ frac(e) < frac(now)
    IN  ~token.nil /\ token.AccessToken # <<>> /\ ~expired

\* what os.UserHomeDir and os.MkdirAll meet: a home directory, no $HOME, or
\* a home directory in which the process may not create a directory
Homes == {"home", "unset", "readonly"}

\* repository.DefaultTokenFileRepo, token_file_repo.go:35-47: the error, and
\* the file system it leaves (os.MkdirAll creates the directory)
DefaultTokenFileRepo(home, d) ==
    IF home = "unset" THEN [err |-> ErrorString("$HOME is not defined"), disk |-> d]
    ELSE IF home = "readonly" /\ ~d.dir THEN [err |-> PathError("mkdir", "EACCES"), disk |-> d]
    ELSE [err |-> NoErr, disk |-> [d EXCEPT !.dir = TRUE]]

\* config.LoadToken, lines 111-123
LoadToken(home, t, d) ==
    LET repo == DefaultTokenFileRepo(home, d)
        l == Load(t, repo.disk)
    IN  IF repo.err # NoErr
        THEN [err |-> NewOAuthError("token_repository", <<"failed to create token repository">>, repo.err),
              disk |-> repo.disk, val |-> Nil]
        ELSE IF l.err # NoErr
        THEN [err |-> NewOAuthError("token_load", <<"failed to load token">>, l.err),
              disk |-> repo.disk, val |-> Nil]
        ELSE [err |-> NoErr, disk |-> repo.disk, val |-> l.val]

\* config.SaveToken, lines 96-102
SaveToken(home, t, d, token, rand, fault) ==
    LET repo == DefaultTokenFileRepo(home, d)
        s == Save(t, repo.disk, token, rand, fault)
    IN  IF repo.err # NoErr
        THEN [err |-> NewOAuthError("token_repository", <<"failed to create token repository">>, repo.err),
              disk |-> repo.disk]
        ELSE [err |-> s.err, disk |-> s.disk]

\* the instants at which AuthFlow is called: before the stored token
\* expires, within ten seconds of its expiry, and after it
Nows == {Time(2023, 0, 0, 0, TRUE), Time(2024, 0, 0, 0, TRUE), Time(2025, 0, 0, 0, TRUE)}

\* the token files AuthFlow finds: those of OldFiles that are private to the
\* user, and tokens without expiry, with and without an access token
StoredFiles(t) ==
    LET rand == [err |-> "nil", salt |-> [i \in 1..SaltSize |-> (7 * i) % 256],
                 nonce |-> [i \in 1..NonceSize |-> (11 * i) % 256]]
        forever == Marshal(Token(Strings.access, <<>>, <<>>, Time(1, 0, 0, 0, FALSE))).val.elems
        empty == Marshal(Token(<<>>, <<>>, <<>>, Time(1, 0, 0, 0, FALSE))).val.elems
    IN  {f \in OldFiles(t) : f.perm = Perm0600}
        \cup {File(Encrypt(t, forever, rand).val.elems, Perm0600),
              File(Encrypt(t, empty, rand).val.elems, Perm0600)}

\* the tokens the token endpoint issues
Issued == {tok \in Tokens : tok.Expiry.year \in {2024, 10000}}

\* AuthFlow returns
AuthReturn(token, err) ==
    authFlow' = [authFlow EXCEPT !.pc = "done", !.val = token, !.err = err]

\* the process is about to call AuthFlow (main.go:80)
AuthInit ==
    /\ Fresh
    /\ te = NewTokenEncryption(<<97>>)
    /\ encrypted = NoBytes
    /\ decrypted = NotDecrypted
    /\ \/ \E d \in BOOLEAN : disk = [dir |-> d, file |-> Nil, umask |-> {"g+w", "o+w"}]
       \/ \E f \in StoredFiles(te) : disk = [dir |-> TRUE, file |-> f, umask |-> {"g+w", "o+w"}]
    /\ repoCall = NoRepoCall
    /\ envCall = NoEnvCall
    /\ \E home \in Homes, now \in Nows :
            authFlow = [NoAuthFlow EXCEPT !.pc = "load", !.home = home, !.now = now,
                                          !.before = disk]
    /\ ucCall = NoUcCall
    /\ savers = NoSavers
    /\ cb = NoServer
    /\ rpc = NoRpc

\* lines 42-44: the stored token is returned if it loads and is valid
AuthLoad ==
    /\ authFlow.pc = "load"
    /\ LET l == LoadToken(authFlow.home, te, disk) IN
        /\ disk' = l.disk
        /\ IF l.err = NoErr /\ Valid(l.val, authFlow.now)
           THEN AuthReturn(l.val, NoErr)
           ELSE authFlow' = [authFlow EXCEPT !.pc = "browser"]
    /\ UNCHANGED <<rlVars, metricVars, lastCall, mem, te, encrypted, decrypted, repoCall>>
    /\ UNCHANGED <<envCall, ucCall, savers, cb, rpc>>

\* lines 46-51: the browser is opened, or cannot be, which is only logged
AuthBrowser(opened) ==
    /\ authFlow.pc = "browser"
    /\ authFlow' = [authFlow EXCEPT !.pc = "server",
                                    !.log = Append(@, IF opened THEN "browser" ELSE "url")]
    /\ UNCHANGED <<rlVars, metricVars, lastCall, mem, storeVars>>
    /\ UNCHANGED <<envCall, ucCall, savers, cb, rpc>>

\* lines 54-57: startLocalServer returns the code of a callback, or an error
AuthServer(code, err) ==
    /\ authFlow.pc = "server"
    /\ IF err # "nil"
       THEN authFlow' = [authFlow EXCEPT
                !.pc = "done", !.log = Append(@, "server"), !.val = Nil,
                !.err = NewOAuthError("authorization", <<"failed to get authorization code">>, err)]
       ELSE authFlow' = [authFlow EXCEPT !.pc = "exchange", !.log = Append(@, "server"),
                                         !.code = code]
    /\ UNCHANGED <<rlVars, metricVars, lastCall, mem, storeVars>>
    /\ UNCHANGED <<envCall, ucCall, savers, cb, rpc>>

\* lines 60-63: the token endpoint answers with a token or not
AuthExchange(token, err) ==
    /\ authFlow.pc = "exchange"
    /\ IF err # "nil"
       THEN authFlow' = [authFlow EXCEPT
                !.pc = "done", !.log = Append(@, "exchange"), !.val = Nil,
                !.err = NewOAuthError("token_exchange", <<"failed to exchange code for token">>, err)]
       ELSE authFlow' = [authFlow EXCEPT !.pc = "save", !.log = Append(@, "exchange"),
                                         !.token = token]
    /\ UNCHANGED <<rlVars, metricVars, lastCall, mem, storeVars>>
    /\ UNCHANGED <<envCall, ucCall, savers, cb, rpc>>

\* lines 66-70: the new token is saved and returned
AuthSave(rand, fault) ==
    /\ authFlow.pc = "save"
    /\ LET s == SaveToken(authFlow.home, te, disk, authFlow.token, rand, fault) IN
        /\ disk' = s.disk
        /\ authFlow' = [authFlow EXCEPT
                !.pc = "done", !.log = Append(@, "save"), !.saved = s.err,
                !.val = IF s.err # NoErr THEN Nil ELSE authFlow.token,
                !.err = IF s.err # NoErr
                        THEN NewOAuthError("token_save", <<"failed to save token">>, s.err)
                        ELSE NoErr]
    /\ UNCHANGED <<rlVars, metricVars, lastCall, mem, te, encrypted, decrypted, repoCall>>
    /\ UNCHANGED <<envCall, ucCall, savers, cb, rpc>>

\* what startLocalServer and Exchange fail with
FlowErrors == {"nil", "context canceled", "oauth2: cannot fetch token"}

AuthNext ==
    \/ AuthLoad
    \/ \E opened \in BOOLEAN : AuthBrowser(opened)
    \/ \E err \in FlowErrors : AuthServer(IF err = "nil" THEN "4/0A" ELSE "", err)
    \/ \E token \in Issued, err \in FlowErrors : AuthExchange(token, err)
    \/ \E rand \in SaveDraws, fault \in WriteFaults : AuthSave(rand, fault)

SpecAuth == AuthInit /\ [][AuthNext]_vars

----------------------------------------------------------------------------
(* TokenFileRepo.Save called by two goroutines on the same path.  What     *)
(* os.WriteFile does is three system calls: open (which truncates), write  *)
(* and close; each file descriptor has its own offset, which starts at 0,  *)
(* and the kernel carries out one write on a regular file at a time.       *)

\* the goroutines that call Save
SaverIDs == {"s1", "s2"}

\* a goroutine that is not in Save
NoSaver == [err |-> NoErr, pc |-> "idle", token |-> Nil, blob |-> <<>>]
NoSaversYet == [s \in SaverIDs |-> NoSaver]

\* the credentials that are saved: they differ in length
SavedTokens == {tok \in Tokens : tok.Expiry.year \in {1, 2024} /\ tok.AccessToken = Strings.access}

\* the bytes of a file after write(fd, data) at offset 0: what lay beyond the
\* written bytes stays
WriteAt0(old, data) ==
    IF Len(old) > Len(data) THEN data \o SubSeq(old, Len(data) + 1, Len(old)) ELSE data

\* a repository on an existing directory, with or without an old token file
SaversInit ==
    /\ Fresh
    /\ te = NewTokenEncryption(<<97>>)
    /\ encrypted = NoBytes
    /\ decrypted = NotDecrypted
    /\ \E f \in {Nil} \cup {g \in OldFiles(te) : g.perm = Perm0600} :
            disk = [dir |-> TRUE, file |-> f, umask |-> {"g+w", "o+w"}]
    /\ repoCall = NoRepoCall
    /\ envCall = NoEnvCall
    /\ authFlow = NoAuthFlow
    /\ ucCall = NoUcCall
    /\ savers = NoSaversYet
    /\ cb = NoServer
    /\ rpc = NoRpc

\* Save, lines 50-63: the token is marshalled and encrypted
SaveSeal(s, token, rand) ==
    /\ savers[s].pc = "idle"
    /\ LET data == Marshal(token)
           encryptedData == Encrypt(te, data.val.elems, rand)
       IN  savers' = [savers EXCEPT ![s] =
                IF data.err # NoErr THEN [NoSaver EXCEPT !.pc = "done", !.token = token, !.err = data.err]
                ELSE IF encryptedData.err # NoErr
                THEN [NoSaver EXCEPT !.pc = "done", !.token = token, !.err = encryptedData.err]
                ELSE [err |-> NoErr, pc |-> "open", token |-> token,
                      blob |-> encryptedData.val.elems]]
    /\ UNCHANGED <<rlVars, metricVars, lastCall, mem, storeVars>>
    /\ UNCHANGED <<envCall, authFlow, ucCall, cb, rpc>>

\* line 65, os.WriteFile: OpenFile(name, O_WRONLY|O_CREATE|O_TRUNC, 0600)
SaveOpen(s) ==
    /\ savers[s].pc = "open"
    /\ LET w == WriteFile(disk, <<>>, Perm0600, [err |-> "nil", n |-> 0]) IN
        /\ disk' = w.disk
        /\ savers' = [savers EXCEPT ![s].pc = IF w.err # NoErr THEN "done" ELSE "write",
                                    ![s].err = w.err]
    /\ UNCHANGED <<rlVars, metricVars, lastCall, mem, te, encrypted, decrypted, repoCall>>
    /\ UNCHANGED <<envCall, authFlow, ucCall, cb, rpc>>

\* os.WriteFile: f.Write(data)
SaveWrite(s) ==
    /\ savers[s].pc = "write"
    /\ disk' = [disk EXCEPT !.file.data = WriteAt0(@, savers[s].blob)]
    /\ savers' = [savers EXCEPT ![s].pc = "close"]
    /\ UNCHANGED <<rlVars, metricVars, lastCall, mem, te, encrypted, decrypted, repoCall>>
    /\ UNCHANGED <<envCall, authFlow, ucCall, cb, rpc>>

\* os.WriteFile: f.Close(), and Save returns nil
SaveClose(s) ==
    /\ savers[s].pc = "close"
    /\ savers' = [savers EXCEPT ![s].pc = "done"]
    /\ UNCHANGED <<rlVars, metricVars, lastCall, mem, storeVars>>
    /\ UNCHANGED <<envCall, authFlow, ucCall, cb, rpc>>

\* token, err := repo.Load(), once no Save is in flight
LoadSaved ==
    /\ \A s \in SaverIDs : savers[s].pc = "done"
    /\ repoCall.op # "Load"
    /\ LET l == Load(te, disk) IN
        repoCall' = [repoCall EXCEPT !.op = "Load", !.err = l.err, !.val = l.val]
    /\ UNCHANGED <<rlVars, metricVars, lastCall, mem, te, encrypted, decrypted, disk>>
    /\ UNCHANGED <<envCall, authFlow, ucCall, savers, cb, rpc>>

SaversNext ==
    \/ \E s \in SaverIDs, token \in SavedTokens, rand \in SaveDraws : SaveSeal(s, token, rand)
    \/ \E s \in SaverIDs : SaveOpen(s)
    \/ \E s \in SaverIDs : SaveWrite(s)
    \/ \E s \in SaverIDs : SaveClose(s)
    \/ LoadSaved

SpecSavers == SaversInit /\ [][SaversNext]_vars

----------------------------------------------------------------------------
(* The calculator server, unnamed/part_014 (main.go of the JSON-RPC        *)
(* example): Server.run reads one request after the other from standard    *)
(* input and writes one response for each.  A JSON value is its kind and   *)
(* what it holds; a json.RawMessage of a member that the request does not  *)
(* have is empty (kind "missing").                                          *)

\* part_014:10-17
ErrorMethodNotFound == -32601
ErrorInvalidParams == -32602
ErrorInternalError == -32603
ErrorDivideByZero == -32000

\* the requests a run reads
MaxRequests == 3

\* an object without members
NoMembers == [k \in {} |-> 0]

Missing == [kind |-> "missing", str |-> "", num |-> 0, members |-> NoMembers]
Null == [kind |-> "null", str |-> "", num |-> 0, members |-> NoMembers]
Str(s) == [kind |-> "string", str |-> s, num |-> 0, members |-> NoMembers]
Num(n) == [kind |-> "number", str |-> "", num |-> n, members |-> NoMembers]
Arr == [kind |-> "array", str |-> "", num |-> 0, members |-> NoMembers]
Obj(members) == [kind |-> "object", str |-> "", num |-> 0, members |-> members]

\* json.Unmarshal(raw, &v) for a struct v whose fields have the given kinds:
\* the error, and the members that were stored.  null stores nothing; a
\* member of another kind than its field is an error; members that v has no
\* field for are skipped
UnmarshalStruct(raw, kinds) ==
    IF raw.kind = "missing" THEN [err |-> "unexpected end of JSON input", val |-> NoMembers]
    ELSE IF raw.kind = "null" THEN [err |-> "nil", val |-> NoMembers]
    ELSE IF raw.kind # "object"
    THEN [err |-> "json: cannot unmarshal into Go value", val |-> NoMembers]
    ELSE IF \E k \in DOMAIN raw.members \cap DOMAIN kinds :
                raw.members[k].kind \notin {kinds[k], "null"} /\ kinds[k] # "raw"
    THEN [err |-> "json: cannot unmarshal into Go struct field", val |-> NoMembers]
    ELSE [err |-> "nil",
          val |-> [k \in {j \in DOMAIN raw.members \cap DOMAIN kinds :
                            raw.members[j].kind # "null" \/ kinds[j] = "raw"} |-> raw.members[k]]]

\* the field of a struct after Unmarshal: the member stored, or the zero value
Field(members, key) == IF key \in DOMAIN members THEN members[key] ELSE Null

\* InitializeParams, part_014:79-83; ToolRequest, 113-116; CalcParams, 107-110
InitializeParams == [clientInfo |-> "object", capabilities |-> "object", protocolVersion |-> "string"]
ToolRequest == [name |-> "string", arguments |-> "raw"]
CalcParams == [a |-> "number", b |-> "number"]

\* a response with a result (what it is, its text, and the terms of its
\* number), and one with an error
Result2(id, tag, text, num, den) ==
    [id |-> id, result |-> [text |-> text, tag |-> tag, num |-> num, den |-> den], error |-> Nil]
Error2(id, code, message) ==
    [id |-> id, result |-> Nil, error |-> [code |-> code, message |-> message, nil |-> FALSE]]

\* Server.handleToolCall, part_014:167-210; the quotient is kept as the
\* pair of its terms
HandleToolCall(id, name, args) ==
    LET params == UnmarshalStruct(args, CalcParams)
        a == Field(params.val, "a").num
        b == Field(params.val, "b").num
    IN  IF params.err # "nil" THEN Error2(id, ErrorInvalidParams, <<"Invalid arguments">>)
        ELSE IF name = "add" THEN Result2(id, "text", "", a + b, 1)
        ELSE IF name = "subtract" THEN Result2(id, "text", "", a - b, 1)
        ELSE IF name = "multiply" THEN Result2(id, "text", "", a * b, 1)
        ELSE IF name = "divide"
        THEN IF b = 0 THEN Error2(id, ErrorDivideByZero, <<"Division by zero">>)
             ELSE Result2(id, "text", "", a, b)
        ELSE Error2(id, ErrorMethodNotFound, <<"Tool '", name, "' not found">>)

\* a server that answers tools/list and tools/call whatever its flag
GuardOff(initialized) == TRUE

\* lines 264 and 276: is the request let through?
Guard(initialized) == initialized

\* one round of the loop of Server.run for a request that was decoded,
\* lines 223-308: the flag it leaves, the response it writes, and whether
\* the process exits
Serve(initialized, req) ==
    LET init == UnmarshalStruct(req.params, InitializeParams)
        toolReq == UnmarshalStruct(req.params, ToolRequest)
    IN  IF req.method = "initialize"
        THEN IF init.err # "nil"
             THEN [resp |-> Error2(req.id, ErrorInvalidParams, <<"Invalid initialize params">>),
                   initialized |-> initialized, exit |-> FALSE]
             ELSE [resp |-> Result2(req.id, "initialize",
                                           Field(init.val, "protocolVersion").str, 0, 1),
                   initialized |-> TRUE, exit |-> FALSE]
        ELSE IF req.method = "shutdown"
        THEN [resp |-> Result2(req.id, "empty", "", 0, 1), initialized |-> initialized, exit |-> TRUE]
        ELSE IF req.method = "tools/list"
        THEN [resp |-> IF ~Guard(initialized)
                       THEN Error2(req.id, ErrorInternalError, <<"Server not initialized">>)
                       ELSE Result2(req.id, "tools", "", 0, 1),
              initialized |-> initialized, exit |-> FALSE]
        ELSE IF req.method = "tools/call"
        THEN [resp |-> IF ~Guard(initialized)
                       THEN Error2(req.id, ErrorInternalError, <<"Server not initialized">>)
                       ELSE IF toolReq.err # "nil"
                       THEN Error2(req.id, ErrorInvalidParams, <<"Invalid params">>)
                       ELSE HandleToolCall(req.id, Field(toolReq.val, "name").str,
                                           IF "arguments" \in DOMAIN toolReq.val
                                           THEN toolReq.val["arguments"] ELSE Missing),
              initialized |-> initialized, exit |-> FALSE]
        ELSE [resp |-> Error2(req.id, ErrorMethodNotFound, <<"Method '", req.method, "' not found">>),
              initialized |-> initialized, exit |-> FALSE]

\* the params of the requests: none, null, objects that fit InitializeParams
\* or ToolRequest or neither, and an array
ParamValues ==
    { Missing, Null, Arr, Obj(NoMembers),
      Obj([protocolVersion |-> Str("2024-11-05")]),
      Obj([protocolVersion |-> Num(1)]),
      Obj([name |-> Str("add"), arguments |-> Obj([a |-> Num(2), b |-> Num(3)])]),
      Obj([name |-> Str("divide"), arguments |-> Obj([a |-> Num(2)])]),
      Obj([name |-> Str("pow"), arguments |-> Null]),
      Obj([name |-> Str("add")]) }

Methods == {"initialize", "shutdown", "tools/list", "tools/call", "ping"}

\* the requests that decode into a Request (part_014:57-62)
Requests == {[id |-> 1, method |-> m, params |-> p] : m \in Methods, p \in ParamValues}

\* main, part_014:118-125
RpcInit ==
    /\ Quiet
    /\ envCall = NoEnvCall
    /\ authFlow = NoAuthFlow
    /\ ucCall = NoUcCall
    /\ savers = NoSavers
    /\ cb = NoServer
    /\ rpc = NoRpc

\* the server reads the request req and answers it
HandleRequest(req) ==
    /\ ~rpc.exited
    /\ rpc.n < MaxRequests
    /\ LET r == Serve(rpc.initialized, req) IN
        rpc' = [n |-> rpc.n + 1, req |-> req, resp |-> r.resp,
                before |-> rpc.initialized, initialized |-> r.initialized,
                exited |-> r.exit,
                ready |-> rpc.ready \/ (req.method = "initialize" /\
                    UnmarshalStruct(req.params, InitializeParams).err = "nil")]
    /\ UNCHANGED <<rlVars, metricVars, lastCall, mem, storeVars>>
    /\ UNCHANGED <<envCall, authFlow, ucCall, savers, cb>>

\* lines 218-221: what the server reads does not decode into a Request (a
\* member of the wrong type); it is skipped without a response
SkipRequest ==
    /\ ~rpc.exited
    /\ rpc.n < MaxRequests
    /\ rpc' = [rpc EXCEPT !.n = @ + 1, !.req = Nil, !.resp = Nil, !.before = rpc.initialized]
    /\ UNCHANGED <<rlVars, metricVars, lastCall, mem, storeVars>>
    /\ UNCHANGED <<envCall, authFlow, ucCall, savers, cb>>

RpcNext ==
    \/ \E req \in Requests : HandleRequest(req)
    \/ SkipRequest

SpecRpc == RpcInit /\ [][RpcNext]_vars

----------------------------------------------------------------------------
(* startLocalServer, pkg/config/oauth.go:126-172: the goroutine that       *)
(* called it (main), the goroutine that runs ListenAndServe, the goroutine *)
(* that waits for the context, and one goroutine of the http server for    *)
(* each callback request.  codeChan and errChan have no buffer: a send     *)
(* happens together with the receive of the select at lines 162-171, and   *)
(* nothing else receives from them.  server.Shutdown(context.Background()) *)
(* closes the listener and returns when no connection is serving a         *)
(* request any more.                                                        *)

\* the values of the query parameter code; "" when the request has none
Codes == {"", "4/0AX"}

\* a handler is running: it is blocked on its send
Blocked(h) == cb.h[h].pc \in {"send_code", "send_err"}

\* what Shutdown waits for: no connection is serving a request
Idle == \A h \in Callbacks : ~Blocked(h)

CbInit ==
    /\ Fresh
    /\ NoStore
    /\ envCall = NoEnvCall
    /\ authFlow = NoAuthFlow
    /\ ucCall = NoUcCall
    /\ savers = NoSavers
    /\ cb = NoServer
    /\ rpc = NoRpc

CbUnchanged ==
    /\ UNCHANGED <<rlVars, metricVars, lastCall, mem, storeVars>>
    /\ UNCHANGED <<envCall, authFlow, ucCall, savers, rpc>>

\* lines 150-154: ListenAndServe binds the port, or fails and the
\* goroutine goes on to send the error
Listen(ok) ==
    /\ cb.listen = "starting"
    /\ cb' = [cb EXCEPT !.listen = IF cb.inShutdown THEN "closed"
                                  ELSE IF ok THEN "serving" ELSE "send_err"]
    /\ CbUnchanged

\* Shutdown was called: ListenAndServe returns http.ErrServerClosed, which
\* is not sent
ListenClosed ==
    /\ cb.listen = "serving"
    /\ cb.inShutdown
    /\ cb' = [cb EXCEPT !.listen = "closed"]
    /\ CbUnchanged

\* lines 132-142: the server accepts the callback request h and runs the
\* handler up to its send
Callback(h, code) ==
    /\ cb.listen = "serving"
    /\ ~cb.inShutdown
    /\ cb.h[h].pc = "none"
    /\ cb' = [cb EXCEPT !.h[h] = [code |-> code,
                                  pc |-> IF code = "" THEN "send_err" ELSE "send_code"]]
    /\ CbUnchanged

\* the context of the call is cancelled
CancelContext ==
    /\ ~cb.done
    /\ cb' = [cb EXCEPT !.done = TRUE]
    /\ CbUnchanged

\* lines 157-160: the goroutine that waits for the context calls Shutdown
WatcherWakes ==
    /\ cb.watcher = "wait"
    /\ cb.done
    /\ cb' = [cb EXCEPT !.watcher = "shutdown", !.inShutdown = TRUE]
    /\ CbUnchanged

\* its Shutdown returns
WatcherShutdownReturns ==
    /\ cb.watcher = "shutdown"
    /\ Idle
    /\ cb' = [cb EXCEPT !.watcher = "done"]
    /\ CbUnchanged

\* lines 163-165: the select receives the code that handler h sends, and
\* calls Shutdown
ReceiveCode(h) ==
    /\ cb.main = "select"
    /\ cb.h[h].pc = "send_code"
    /\ cb' = [cb EXCEPT !.main = "shutdown", !.val = cb.h[h].code, !.err = "nil",
                        !.h[h].pc = "done", !.inShutdown = TRUE]
    /\ CbUnchanged

\* lines 166-168: the select receives the error that handler h sends
ReceiveHandlerErr(h) ==
    /\ cb.main = "select"
    /\ cb.h[h].pc = "send_err"
    /\ cb' = [cb EXCEPT !.main = "shutdown", !.val = "", !.err = "no code",
                        !.h[h].pc = "done", !.inShutdown = TRUE]
    /\ CbUnchanged

\* lines 166-168: the select receives the error of ListenAndServe
ReceiveListenErr ==
    /\ cb.main = "select"
    /\ cb.listen = "send_err"
    /\ cb' = [cb EXCEPT !.main = "shutdown", !.val = "", !.err = "listen",
                        !.listen = "closed", !.inShutdown = TRUE]
    /\ CbUnchanged

\* lines 169-170: the select finds the context done and returns its error
ReceiveDone ==
    /\ cb.main = "select"
    /\ cb.done
    /\ cb' = [cb EXCEPT !.main = "returned", !.val = "", !.err = "context canceled"]
    /\ CbUnchanged

\* lines 164-165 and 167-168: Shutdown returns, and startLocalServer does
ShutdownReturns ==
    /\ cb.main = "shutdown"
    /\ Idle
    /\ cb' = [cb EXCEPT !.main = "returned"]
    /\ CbUnchanged

\* the steps of the goroutine that called startLocalServer
MainStep ==
    \/ \E h \in Callbacks : ReceiveCode(h)
    \/ \E h \in Callbacks : ReceiveHandlerErr(h)
    \/ ReceiveListenErr
    \/ ReceiveDone
    \/ ShutdownReturns

ListenStep == (\E ok \in BOOLEAN : Listen(ok)) \/ ListenClosed

WatcherStep == WatcherWakes \/ WatcherShutdownReturns

CbNext ==
    \/ MainStep
    \/ ListenStep
    \/ WatcherStep
    \/ \E h \in Callbacks, code \in Codes : Callback(h, code)
    \/ CancelContext

SpecCb == CbInit /\ [][CbNext]_vars

\* every goroutine that can take a step takes one; the requests and the
\* cancellation are up to the environment
SpecCbFair == SpecCb /\ WF_vars(MainStep) /\ WF_vars(ListenStep) /\ WF_vars(WatcherStep)

----------------------------------------------------------------------------
(* Wait calls that follow one another: a call begins only when no other    *)
(* call is in flight, from whichever goroutine.  The ticker goroutine of a *)
(* call that has returned may still be inside NextBackOff (backoff.Ticker  *)
(* finishes send before it looks at its stop channel).                     *)

\* a caller begins a Wait call while no call is in flight
WaitInTurn(p, c) ==
    /\ \A q \in Procs : pc[q] = "idle"
    /\ WaitBegin(p, c)

\* the calls come with a timeout: without one limiter.Wait gets its
\* reservation and the loop is not entered
SeqNext ==
    \/ \E p \in Procs : Allow(p)
    \/ \E p \in Procs : \E c \in Contexts \ NoDeadlineContexts : WaitInTurn(p, c)
    \/ \E p \in Procs : LimiterWait(p)
    \/ \E p \in Procs : SleepWake(p)
    \/ \E p \in Procs : SleepCancel(p)
    \/ \E p \in Procs : CheckCtx(p)
    \/ \E p \in Procs : TickerNew(p)
    \/ \E p \in Procs : TickerReset(p)
    \/ \E p \in Procs : LoopDone(p)
    \/ \E p \in Procs : LoopTick(p)
    \/ \E p \in Procs : TickerNextRead(p)
    \/ \E p \in Procs : TickerNextWrite(p)
    \/ \E p \in Procs : TickerFire(p)
    \/ \E p \in Procs : CancelCtx(p)
    \/ Tick

SpecSeq == RLInit /\ [][SeqNext]_vars

----------------------------------------------------------------------------
(* Properties of the rate limiter *)

C2_NoDoubleSpend == spendable.tokens >= 0

\* C2 witness: time has refilled at least one token, every token there ever
\* was is spent, the last one by a Wait that has just returned nil while
\* another Wait call is still waiting for its own
C2_Witness ==
    /\ spendable.on
    /\ spendable.tokens = 0
    /\ spendable.left <= MaxWindow - Second
    /\ ret.ok
    /\ ret.from = "sleep"
    /\ \E p \in Procs : pc[p] = "sleep"

\* C3: Reset() changes only the backoff state and leaves the token bucket
\* unchanged; after the bucket is exhausted, a Reset() with no time elapsing
\* does not make Allow() return true.
C3_ResetKeepsBucket ==
    /\ [](mon.st = 2 => ~mon.res)
    /\ [][(\E p \in Procs : ResetStore(p)) => UNCHANGED limVars]_vars

\* C3 witness: the bucket was exhausted, Reset completed, and the Allow that
\* followed at the same instant was refused
C3_Witness ==
    /\ mon.st = 2
    /\ ~mon.res
    /\ Exhausted

\* C4: after the bucket has been exhausted and Reset() has been called, a
\* Wait(ctx) whose context is never cancelled and has no deadline eventually
\* returns nil (checked under SpecFair: goroutines run, time goes on).
C4_WaitEventuallyAdmits == (mon.st = 3) ~> (mon.st = 4 /\ mon.res)

\* C4 witness: a Wait(context.Background()) begun right after a Reset on the
\* exhausted bucket has slept until its token was refilled and returned nil
C4_Witness ==
    /\ mon.st = 4
    /\ mon.res
    /\ ret.ok
    /\ ret.bg
    /\ ret.from = "sleep"

\* C5: Wait(ctx) called with an already-cancelled context returns the
\* cancellation error without entering the backoff loop or waiting for any
\* interval, whatever the state of the bucket: such a call is only ever at
\* line 52 or at the check of line 56, it has no ticker and no reservation,
\* and what it returns is the error wrapping context.Canceled.
C5_PreCancelled ==
    /\ \A p \in Procs :
         (pc[p] # "idle" /\ ctx[p].pre) =>
            /\ pc[p] \in {"wait", "chk"}
            /\ tk[p] = NoTicker
            /\ resAt[p] = 0
    /\ ret.pre => ret.err = WaitCancelError("canceled")

\* C5 witness: such a call has returned, on an exhausted bucket
C5_Witness ==
    /\ ret.pre
    /\ ret.from = "chk"
    /\ ret.err = WaitCancelError("canceled")
    /\ Exhausted

\* C6: Wait(ctx) on an exhausted bucket retries until a token is there (nil)
\* or the context's cancellation/deadline fires (the cancellation error
\* wrapping the context's cause); it never returns an error while the
\* context is still live.
C6_ErrorOnlyWhenDone ==
    /\ ret.err # NoErr =>
         /\ ret.ctxErr # "nil"
         /\ ret.err = WaitCancelError(ret.ctxErr)
    /\ ret.ok => ret.err = NoErr

\* C6 witness: a Wait whose deadline was too short for the exhausted bucket
\* went round the backoff loop (its ticker is still winding down) and has
\* returned the error wrapping context.DeadlineExceeded
C6_Witness ==
    /\ ret.err = WaitCancelError("deadline")
    /\ ret.from = "loop"
    /\ \E p \in Procs : tk[p].stop /\ tk[p].n = MaxTicks

\* C7: the error kinds tell apart caller-cancelled, deadline-exceeded and
\* upstream failure; the error Wait returns on cancellation is not of the
\* same kind (type, operation, code) as a rate-limit rejection.
C7_CancelKindDistinct ==
    ret.err # NoErr => Kind(ret.err) # Kind(RateLimitExceededError)

\* C8: the backoff state is only read or written atomically/under lock: no
\* interleaving of concurrent Wait() callers with each other or with Reset()
\* has two goroutines access it at the same time with one of them writing.
C8_NoDataRace == ~DataRace

----------------------------------------------------------------------------
(* Properties of the gateway (checked under SpecGW) *)

\* C9: when the limiter's Allow() returns false, the adapter's ListCalendars
\* and CreateEvent return RateLimitExceeded, record one rate-limit
\* observation, and send nothing to the calendar service.
C9_RejectedWithoutCall ==
    (lastCall.n > 0 /\ ~lastCall.admitted) =>
        /\ lastCall.err = RateLimitExceededError
        /\ Count(lastCall.obs, RecordRateLimitHit) = 1
        /\ Count(lastCall.obs, RecordAPIError(lastCall.op, "rate_limit")) = 1
        /\ rateLimitHitsTotal >= 1
        /\ lastCall.net = <<>>

\* C9 witness: a CreateEvent that the service would have carried out (a valid
\* event for a calendar) was refused by the limiter
C9_Witness ==
    /\ lastCall.op = "create_event"
    /\ ~lastCall.admitted
    /\ lastCall.calendarID = "primary"
    /\ ~lastCall.event.nil
    /\ Validate(lastCall.event) = "nil"
    /\ rateLimitHitsTotal = 1
    /\ apiErrorsTotal["create_event"]["rate_limit"] = 1
    /\ apiResponseDuration["create_event"] = 0

\* C10: for every event that fails validation (empty title, start or end
\* with neither timestamp nor date, end before start) the gateway's
\* CreateEvent fails with ValidationError and sends no request to the
\* external calendar service, neither the access check nor the insert.
C10_InvalidEventNoNetwork ==
    ( /\ lastCall.op = "create_event"
      /\ lastCall.admitted
      /\ ~lastCall.event.nil
      /\ Validate(lastCall.event) # "nil" ) =>
        /\ lastCall.err.type = "ValidationError"
        /\ lastCall.net = <<>>

\* C11: when the access check reports not-found for the calendar, CreateEvent
\* returns a ValidationError and never attempts the insert; an insert is only
\* dispatched after an access check that succeeded.
C11_AccessCheckGuardsInsert ==
    (lastCall.op = "create_event" /\ lastCall.admitted) =>
        /\ (\E i \in DOMAIN lastCall.net :
                /\ lastCall.net[i].req = "Calendars.Get"
                /\ IsNotFound(lastCall.net[i].ans))
            => /\ lastCall.err.type = "ValidationError"
               /\ \A i \in DOMAIN lastCall.net : lastCall.net[i].req # "Events.Insert"
        /\ \A i \in DOMAIN lastCall.net :
                lastCall.net[i].req = "Events.Insert"
                => \E j \in 1..(i - 1) :
                        /\ lastCall.net[j].req = "Calendars.Get"
                        /\ lastCall.net[j].ans = "nil"

\* C11 witness: a valid event for a calendar that the access check did not
\* find: the check is the only request, the error a ValidationError
C11_Witness ==
    /\ lastCall.op = "create_event"
    /\ lastCall.admitted
    /\ ~lastCall.event.nil
    /\ Validate(lastCall.event) = "nil"
    /\ Len(lastCall.net) = 1
    /\ IsNotFound(lastCall.net[1].ans)
    /\ lastCall.err.type = "ValidationError"
    /\ lastCall.err.op = "calendar_id"

\* C12: an upstream failure other than a not-found of the access check is
\* returned as an APIError whose code is the status code of the upstream
\* response and whose message carries the upstream message.
C12_UpstreamCodeCarried ==
    \A i \in DOMAIN lastCall.net :
        ( /\ lastCall.net[i].ans # "nil"
          /\ ~(lastCall.net[i].req = "Calendars.Get" /\ IsNotFound(lastCall.net[i].ans)) )
        => /\ lastCall.err.type = "APIError"
           /\ lastCall.err.code = StatusCode(lastCall.net[i].ans)
           /\ \E k \in DOMAIN lastCall.err.msg : lastCall.err.msg[k] = lastCall.net[i].ans

\* C13: a failing call records one error observation for its operation under
\* the classification of the error it returns: a rate-limit rejection under
\* rate_limit, and a ValidationError not under the classification that
\* APIErrors are counted under (api_error).
C13_ErrorClassified ==
    (lastCall.n > 0 /\ lastCall.err # NoErr) =>
        /\ \E t \in ErrorTypes : Count(lastCall.obs, RecordAPIError(lastCall.op, t)) = 1
        /\ lastCall.err = RateLimitExceededError
            => Count(lastCall.obs, RecordAPIError(lastCall.op, "rate_limit")) = 1
        /\ lastCall.err.type = "ValidationError"
            => Count(lastCall.obs, RecordAPIError(lastCall.op, "api_error")) = 0

\* C14: every call of ListCalendars or CreateEvent records exactly one
\* latency observation for its operation, whatever its outcome, a rate-limit
\* rejection included.
C14_OneLatencyPerCall ==
    lastCall.n > 0 =>
        Count(lastCall.obs, RecordAPIResponseDuration(lastCall.op)) = 1

C16_NoRetry ==
    lastCall.n > 0 =>
        /\ Count(lastCall.obs, LimiterAllow) = 1
        /\ Count(lastCall.obs, ServiceCall) = IF lastCall.admitted THEN 1 ELSE 0
        /\ \A i, j \in DOMAIN lastCall.net :
                lastCall.net[i].req = lastCall.net[j].req => i = j
        /\ ~lastCall.admitted => lastCall.net = <<>> /\ lastCall.err = RateLimitExceededError
        /\ (lastCall.admitted /\ lastCall.op = "create_event" /\ ~lastCall.event.nil
                /\ lastCall.calendarID # "" /\ Validate(lastCall.event) # "nil")
            => /\ lastCall.err # NoErr
               /\ Len(lastCall.net) = 1

\* C16 witness: an event without a title for a calendar that exists: the
\* service was called once and sent its one request, and the ValidationError
\* came back
C16_Witness ==
    /\ lastCall.op = "create_event"
    /\ lastCall.admitted
    /\ lastCall.calendarID = "primary"
    /\ ~lastCall.event.nil
    /\ lastCall.event.title = ""
    /\ lastCall.err.type = "ValidationError"
    /\ lastCall.err.op = "event"
    /\ Count(lastCall.obs, ServiceCall) = 1

\* a call of the gateway that met a failure: the limiter refused it, the
\* arguments were invalid, or the Google API answered a request with an error
Failed ==
    /\ lastCall.n > 0
    /\ \/ ~lastCall.admitted
       \/ \E i \in DOMAIN lastCall.net : lastCall.net[i].ans # "nil"
       \/ /\ lastCall.op = "create_event"
          /\ \/ lastCall.event.nil
             \/ lastCall.calendarID = ""
             \/ Validate(lastCall.event) # "nil"

\* C17: no failure is swallowed: on every failure path of ListCalendars and
\* CreateEvent the call returns a non-nil classified error and the error
\* counter of the operation is incremented (rate_limit for a rejection,
\* api_error otherwise).
C17_NoFailureSwallowed ==
    Failed =>
        /\ lastCall.err.type \in {"APIError", "ValidationError"}
        /\ LET t == IF lastCall.admitted THEN "api_error" ELSE "rate_limit"
           IN  /\ Count(lastCall.obs, RecordAPIError(lastCall.op, t)) = 1
               /\ apiErrorsTotal[lastCall.op][t] >= 1

\* C17 witness: the Google API answered a list request with a 503
C17_Witness ==
    /\ lastCall.op = "list_calendars"
    /\ lastCall.admitted
    /\ Len(lastCall.net) = 1
    /\ StatusCode(lastCall.net[1].ans) = 503
    /\ lastCall.err.type = "APIError"
    /\ apiErrorsTotal["list_calendars"]["api_error"] = 1

\* C18: the location of the Event that a successful CreateEvent returned is a
\* string of its own: writing to the caller's location or to the wire
\* response afterwards does not change it, nor the request that was sent.
C18_LocationNotAliased ==
    [][(lastCall.op = "create_event" /\ lastCall.err = NoErr /\ lastCall' = lastCall)
        => mem'[lastCall.val.location.addr] = mem[lastCall.val.location.addr]]_vars

\* C19: an admitted ListCalendars that the Google API answers returns no
\* error and one Calendar per item of the response, in the same order, with
\* identifier, title, description and time zone copied: an empty list for
\* zero items.
C19_CalendarsMapped ==
    (lastCall.op = "list_calendars" /\ lastCall.admitted /\ lastCall.net[1].ans = "nil") =>
        LET items == lastCall.net[1].resp
            cals == lastCall.val
        IN  /\ lastCall.err = NoErr
            /\ ~cals.nil
            /\ Len(cals.elems) = Len(items)
            /\ \A i \in 1..Len(items) :
                    /\ cals.elems[i].id = items[i].Id
                    /\ cals.elems[i].title = items[i].Summary
                    /\ cals.elems[i].description = items[i].Description
                    /\ cals.elems[i].timeZone = items[i].TimeZone

\* C19 witness: the response had zero items and the call returned an empty,
\* non-nil list
C19_Witness ==
    /\ lastCall.op = "list_calendars"
    /\ lastCall.admitted
    /\ lastCall.err = NoErr
    /\ lastCall.net[1].ans = "nil"
    /\ Len(lastCall.net[1].resp) = 0
    /\ lastCall.val = Slice(<<>>)

\* C20: CreateEvent keeps the order of attendees both ways: the request holds
\* one attendee per input email in input order (none, that is a nil slice,
\* for an empty input), and the attendees of the returned Event are the emails
\* of the response's attendees in their order, an empty list when there are
\* none.
C20_AttendeeOrder ==
    (lastCall.op = "create_event" /\ lastCall.err = NoErr) =>
        LET in == lastCall.event.attendees.elems
            sent == lastCall.net[2].body[1].Attendees
            got == lastCall.net[2].resp[1].Attendees.elems
            out == lastCall.val.attendees
        IN  /\ Len(sent.elems) = Len(in)
            /\ \A i \in 1..Len(in) : sent.elems[i].Email = in[i]
            /\ Len(in) = 0 => sent.nil
            /\ ~out.nil
            /\ Len(out.elems) = Len(got)
            /\ \A i \in 1..Len(got) : out.elems[i] = got[i].Email

\* C20 witness: two different attendees went out, and the response named
\* them in the other order
C20_Witness ==
    /\ lastCall.op = "create_event"
    /\ lastCall.err = NoErr
    /\ Len(lastCall.event.attendees.elems) = 2
    /\ Len(lastCall.val.attendees.elems) = 2
    /\ lastCall.event.attendees.elems[1] # lastCall.event.attendees.elems[2]
    /\ lastCall.val.attendees.elems[1] = lastCall.event.attendees.elems[2]
    /\ lastCall.val.attendees.elems[2] = lastCall.event.attendees.elems[1]

----------------------------------------------------------------------------
(* Properties of Event.Validate, as CreateEvent applies it *)

\* C30: Event.Validate returns an error when the title is empty, when start
\* or end carries neither timestamp nor date, when a present timestamp is
\* not RFC3339, or when both timestamps are present and end is before start;
\* it returns no error for a titled event whose start and end each carry a
\* date, or each a valid timestamp with end not before start.
C30_ValidateContract ==
    ( /\ lastCall.op = "create_event"
      /\ lastCall.admitted
      /\ lastCall.calendarID # ""
      /\ ~lastCall.event.nil
      /\ Len(lastCall.net) >= 1
      /\ lastCall.net[1].ans = "nil" ) =>
        LET e == lastCall.event
            rejected == lastCall.err.type = "ValidationError" /\ lastCall.err.op = "event"
            startBad == e.start.dateTime # "" /\ ParseRFC3339(e.start.dateTime).err # "nil"
            endBad == e.end.dateTime # "" /\ ParseRFC3339(e.end.dateTime).err # "nil"
            bothValid == /\ e.start.dateTime # "" /\ e.end.dateTime # ""
                         /\ ~startBad /\ ~endBad
            endBeforeStart ==
                ParseRFC3339(e.end.dateTime).t < ParseRFC3339(e.start.dateTime).t
        IN  /\ ( \/ e.title = ""
                 \/ e.start.dateTime = "" /\ e.start.date = ""
                 \/ e.end.dateTime = "" /\ e.end.date = ""
                 \/ startBad
                 \/ endBad
                 \/ bothValid /\ endBeforeStart ) => rejected
            /\ ( /\ e.title # ""
                 /\ \/ e.start.date # "" /\ e.end.date # ""
                    \/ bothValid /\ ~endBeforeStart ) => ~rejected

----------------------------------------------------------------------------
(* Properties of TokenEncryption *)

\* C21: Decrypt of what Encrypt returned yields the plaintext that was
\* encrypted, whatever salt and nonce Encrypt drew, under the same passphrase.
C21_RoundTrip ==
    (decrypted.done /\ encrypted.changed = "nothing") =>
        /\ decrypted.err = NoErr
        /\ decrypted.val.elems = encrypted.plaintext

\* C21 witness: a plaintext of two different bytes came back
C21_Witness ==
    /\ decrypted.done
    /\ encrypted.changed = "nothing"
    /\ encrypted.plaintext = <<123, 255>>
    /\ decrypted.val = Slice(<<123, 255>>)

\* C22: for every input shorter than salt and nonce together (the empty one,
\* and a full salt with a truncated nonce among them) Decrypt returns an
\* error that names the length, and no plaintext.
C22_ShortInputRejected ==
    (decrypted.done /\ Len(encrypted.data) < SaltSize + NonceSize) =>
        /\ decrypted.err \in {ErrorString("encrypted data too short"),
                              ErrorString("ciphertext too short")}
        /\ decrypted.val = NilSlice

\* C22 witness: the salt and all but one byte of the nonce were passed
C22_Witness ==
    /\ decrypted.done
    /\ Len(encrypted.data) = SaltSize + NonceSize - 1
    /\ decrypted.err = ErrorString("ciphertext too short")

\* C23: after any single byte of what Encrypt returned has been changed
\* (in the salt, the nonce, the ciphertext or the tag) Decrypt returns the
\* authentication error and no plaintext.
C23_TamperDetected ==
    (decrypted.done /\ encrypted.changed = "byte") =>
        /\ decrypted.err = ErrOpen
        /\ decrypted.val = NilSlice

\* C23 witness: a byte of the salt was changed and Decrypt refused
C23_Witness ==
    /\ decrypted.done
    /\ encrypted.changed = "byte"
    /\ SubSeq(encrypted.data, 1, SaltSize) \notin Salts
    /\ Len(encrypted.plaintext) > 0
    /\ decrypted.err = ErrOpen

----------------------------------------------------------------------------
(* Properties of TokenFileRepo *)

\* C24: a Load after a successful Save returns a token with the access
\* token, refresh token, token type and expiry instant of the token that was
\* saved; after several Saves it is the token of the latest one.
C24_SaveThenLoad ==
    (repoCall.op = "Load" /\ repoCall.n > 0 /\ repoCall.saved = NoErr) =>
        /\ repoCall.err = NoErr
        /\ ~repoCall.val.nil
        /\ repoCall.val.AccessToken = repoCall.token.AccessToken
        /\ repoCall.val.RefreshToken = repoCall.token.RefreshToken
        /\ repoCall.val.TokenType = repoCall.token.TokenType
        /\ Instant(repoCall.val.Expiry) = Instant(repoCall.token.Expiry)

\* C24 witness: the second Save replaced the bytes of the first by those of a
\* token whose strings need escaping and whose expiry has a zone, and Load
\* returned that token
C24_Witness ==
    /\ repoCall.op = "Load"
    /\ repoCall.n = 2
    /\ repoCall.saved = NoErr
    /\ ~repoCall.before.file.nil
    /\ Len(repoCall.before.file.data) > SaltSize + NonceSize + TagSize
    /\ Len(repoCall.before.file.data) # Len(disk.file.data)
    /\ repoCall.token.AccessToken = Strings.escaped
    /\ repoCall.val.AccessToken = Strings.escaped
    /\ repoCall.val.Expiry.offset = -90

\* C25: after every successful Save the permission bits of the token file
\* are 0600, whether Save created the file or overwrote one that had other
\* bits.
C25_Mode0600 ==
    (repoCall.op = "Save" /\ repoCall.err = NoErr) => disk.file.perm = Perm0600

\* C26 as stated: after any Save, successful or failed at any step, the bytes
\* at the token path are absent, unchanged, or an output of Encrypt, and the
\* marshalled token is never written.
C26_AbsentUnchangedOrEncrypted ==
    repoCall.n > 0 =>
        /\ \/ disk.file.nil
           \/ ~repoCall.before.file.nil /\ disk.file.data = repoCall.before.file.data
           \/ repoCall.sealed # <<>> /\ disk.file.data = repoCall.sealed
        /\ (~disk.file.nil /\ repoCall.plaintext # <<>>)
                => disk.file.data # repoCall.plaintext

\* C26 amended: after any Save, successful or failed at any step, the bytes
\* at the token path are absent, unchanged, an output of Encrypt, or the
\* beginning of an output of Encrypt left by a write that failed; the
\* marshalled token is never written.
C26_NeverPlaintext ==
    repoCall.n > 0 =>
        /\ \/ disk.file.nil
           \/ ~repoCall.before.file.nil /\ disk.file.data = repoCall.before.file.data
           \/ repoCall.sealed # <<>> /\ disk.file.data = repoCall.sealed
           \/ /\ repoCall.saved = PathError("write", "ENOSPC")
              /\ Len(disk.file.data) < Len(repoCall.sealed)
              /\ disk.file.data = SubSeq(repoCall.sealed, 1, Len(disk.file.data))
        /\ (~disk.file.nil /\ repoCall.plaintext # <<>>)
                => disk.file.data # repoCall.plaintext

\* C26 witness: a Save on an existing token file failed after the salt and
\* the nonce were written
C26_Witness ==
    /\ repoCall.op = "Save"
    /\ ~repoCall.before.file.nil
    /\ Len(repoCall.before.file.data) > SaltSize + NonceSize
    /\ repoCall.err = PathError("write", "ENOSPC")
    /\ Len(disk.file.data) = SaltSize + NonceSize
    /\ disk.file.data = SubSeq(repoCall.sealed, 1, SaltSize + NonceSize)

\* C27: a failing Load returns no token; when no file exists the error is the
\* not-found error of the file system, when the file exists and cannot be
\* decrypted or parsed it is an error of Decrypt or of the JSON decoder, never
\* the not-found error.
C27_LoadErrorKinds ==
    repoCall.op = "Load" =>
        /\ repoCall.err # NoErr => repoCall.val = Nil
        /\ disk.file.nil => repoCall.err = PathError("open", "ENOENT")
        /\ ( /\ ~disk.file.nil
             /\ \/ Decrypt(te, disk.file.data).err # NoErr
                \/ Unmarshal(Decrypt(te, disk.file.data).val.elems).err # NoErr )
           => /\ repoCall.err # NoErr
              /\ repoCall.err.type \in {"errorString", "SyntaxError", "ParseError"}
              /\ repoCall.err.type # PathError("open", "ENOENT").type

\* C27 witness: Load in an existing directory without a token file
C27_Witness ==
    /\ repoCall.op = "Load"
    /\ disk.dir
    /\ disk.file.nil
    /\ repoCall.val = Nil
    /\ repoCall.err.cause = "ENOENT"

C29_NoDirectoryCreated ==
    repoCall.op = "Save" =>
        /\ disk.dir = repoCall.before.dir
        /\ ~repoCall.before.dir =>
                /\ repoCall.err # NoErr
                /\ ~disk.dir
                /\ disk.file.nil

\* C29 witness: Save of a token got as far as os.WriteFile, which found no
\* directory
C29_Witness ==
    /\ repoCall.op = "Save"
    /\ ~repoCall.before.dir
    /\ ~repoCall.token.nil
    /\ repoCall.sealed # <<>>
    /\ repoCall.err = PathError("open", "ENOENT")
    /\ ~disk.dir

\* C37: every admission consumes exactly one token and every refusal none:
\* whenever no call is in flight, the bucket holds what a bucket holds that
\* paid one token for each Allow() that returned true and each Wait() that
\* returned nil, and nothing for an Allow() that returned false or a Wait()
\* that returned an error, a Wait cancelled while it waited for its token
\* included (checked under SpecBucket).
C37_RefusalConsumesNothing ==
    (spendable.on /\ \A p \in Procs : pc[p] = "idle") =>
        limTokens = spendable.tokens

----------------------------------------------------------------------------
(* Properties of the gateway's argument checks (checked under SpecGW) *)

\* C38: a CreateEvent that the limiter admits, with a nil event or with an
\* empty calendar ID, fails with ValidationError and sends nothing to the
\* Google API: neither the access check (Calendars.Get) nor the insert.
C38_ArgumentsCheckedFirst ==
    ( /\ lastCall.op = "create_event"
      /\ lastCall.admitted
      /\ lastCall.event.nil \/ lastCall.calendarID = "" ) =>
        /\ lastCall.err.type = "ValidationError"
        /\ lastCall.net = <<>>
        /\ lastCall.val.nil

\* C38 witness: a valid event for the empty calendar ID was refused for the
\* calendar ID
C38_Witness ==
    /\ lastCall.op = "create_event"
    /\ lastCall.admitted
    /\ lastCall.calendarID = ""
    /\ ~lastCall.event.nil
    /\ Validate(lastCall.event) = "nil"
    /\ lastCall.err = NewValidationError("calendar_id", <<"calendar ID cannot be empty">>, "nil")
    /\ lastCall.net = <<>>

----------------------------------------------------------------------------
(* Properties of CreateEventUseCase (checked under SpecUC) *)

----------------------------------------------------------------------------
(* Properties of the startup configuration (checked under SpecEnv) *)

\* C31: when GCAL_CREDENTIALS_PATH is unset or empty, or the file it names
\* does not exist, GetCredentialsPath returns a ConfigError and the empty
\* path; it returns a path and no error only when the variable is set to a
\* non-empty value and the file it names exists, and the path is that of
\* this file.
C31_CredentialsPath ==
    envCall.done =>
        LET set == EnvCredentialsPath \in DOMAIN envCall.environ
            value == IF set THEN envCall.environ[EnvCredentialsPath] ELSE <<>>
            named == IF IsAbs(value) THEN Clean(value) ELSE Clean(envCall.wd.val \o value)
            exists == /\ envCall.wd.err = "nil" \/ IsAbs(value)
                      /\ named \in DOMAIN envCall.fs
                      /\ \A n \in 1..(Len(named) - 1) :
                            /\ SubSeq(named, 1, n) \in DOMAIN envCall.fs
                            /\ envCall.fs[SubSeq(named, 1, n)] # "file"
        IN  /\ (~set \/ value = <<>> \/ ~exists) =>
                    /\ envCall.err.type = "ConfigError"
                    /\ envCall.val = <<>>
            /\ envCall.err = NoErr =>
                    /\ set /\ value # <<>> /\ exists
                    /\ envCall.val = named
            /\ envCall.err # NoErr => envCall.val = <<>>

\* C31 witness: the variable holds a relative path with a ".." in it, the
\* file is there, and GetCredentialsPath returned its rooted path
C31_Witness ==
    /\ envCall.done
    /\ envCall.environ = [k \in {EnvCredentialsPath} |-> <<"..", "credentials.json">>]
    /\ envCall.wd.val = <<"/", "cfg">>
    /\ envCall.err = NoErr
    /\ envCall.val = <<"/", "credentials.json">>

----------------------------------------------------------------------------
(* Properties of AuthFlow (checked under SpecAuth) *)

\* C32: when the stored token loads and is valid (it has an access token,
\* and no expiry or one at least ten seconds ahead), AuthFlow returns it
\* and has opened no browser, started no callback server, exchanged no code
\* and saved nothing; otherwise it returns a token only after the exchange
\* succeeded and the new token was saved, and a failure of the callback, of
\* the exchange or of the save yields an OAuthError and no token.
C32_StoredTokenOrFullFlow ==
    authFlow.pc = "done" =>
        LET stored == LoadToken(authFlow.home, te, authFlow.before)
            now == authFlow.now
            ahead(e) ==
                \/ e.year > now.year
                \/ /\ e.year = now.year
                   /\ \/ e.min * 60 + e.nsec \div 1000000000 - 10
                            > now.min * 60 + now.nsec \div 1000000000
                      \/ /\ e.min * 60 + e.nsec \div 1000000000 - 10
                                = now.min * 60 + now.nsec \div 1000000000
                         /\ e.nsec % 1000000000 >= now.nsec % 1000000000
            usable == /\ stored.err = NoErr
                      /\ stored.val.AccessToken # <<>>
                      /\ Instant(stored.val.Expiry) = <<1, 0, 0>> \/ ahead(stored.val.Expiry)
            log == authFlow.log
            last == IF log = <<>> THEN "" ELSE log[Len(log)]
        IN  IF usable
            THEN /\ authFlow.val = stored.val
                 /\ authFlow.err = NoErr
                 /\ log = <<>>
                 /\ disk.file = authFlow.before.file
            ELSE /\ ~authFlow.val.nil =>
                        /\ Len(log) = 4
                        /\ log[2] = "server" /\ log[3] = "exchange" /\ log[4] = "save"
                        /\ authFlow.saved = NoErr
                        /\ authFlow.val = authFlow.token
                        /\ authFlow.err = NoErr
                        /\ disk.file # authFlow.before.file
                 /\ authFlow.val.nil =>
                        /\ authFlow.err.type = "OAuthError"
                        /\ authFlow.err.op =
                                IF last = "server" THEN "authorization"
                                ELSE IF last = "exchange" THEN "token_exchange"
                                ELSE "token_save"
                        /\ last = "save" => authFlow.saved # NoErr

\* C32 witness: the stored token had expired; the browser could not be
\* opened, the callback brought a code, the exchange a token, and AuthFlow
\* saved it over the old one and returned it
C32_Witness ==
    /\ authFlow.pc = "done"
    /\ ~authFlow.before.file.nil
    /\ LoadToken(authFlow.home, te, authFlow.before).err = NoErr
    /\ authFlow.now.year = 2025
    /\ authFlow.log = <<"url", "server", "exchange", "save">>
    /\ authFlow.err = NoErr
    /\ authFlow.val = authFlow.token
    /\ Load(te, disk).err = NoErr

----------------------------------------------------------------------------
(* Properties of concurrent Save calls (checked under SpecSavers) *)

\* C35: when two Save calls on the same path have run concurrently and both
\* have returned nil, the file holds the complete blob of exactly one of
\* them, and a following Load returns one of the two saved credentials.
C35_LastWriterWins ==
    (\A s \in SaverIDs : savers[s].pc = "done" /\ savers[s].err = NoErr) =>
        /\ \E s \in SaverIDs : disk.file.data = savers[s].blob
        /\ repoCall.op = "Load" =>
                /\ repoCall.err = NoErr
                /\ \E s \in SaverIDs :
                        repoCall.val = Unmarshal(Marshal(savers[s].token).val.elems).val

\* C39: in the calculator server a tools/list or tools/call request read
\* before any initialize request whose params unmarshal is answered with the
\* error -32603 "Server not initialized"; an initialize request whose params
\* do not unmarshal leaves the initialized flag as it was; and a flag that
\* was true when a request was read is true after it.
C39_NotInitializedUntilInitialize ==
    rpc.req # Nil =>
        /\ (rpc.req.method \in {"tools/list", "tools/call"} /\ ~rpc.ready) =>
              rpc.resp.error = [code |-> -32603,
                                message |-> <<"Server not initialized">>,
                                nil |-> FALSE]
        /\ (rpc.req.method = "initialize" /\
            UnmarshalStruct(rpc.req.params, InitializeParams).err # "nil") =>
              rpc.initialized = rpc.before
        /\ rpc.before => rpc.initialized
        /\ rpc.initialized = rpc.ready

\* C39: a tools/call request that names a tool has been refused after an
\* initialize request with params of the wrong kind
C39_Witness ==
    /\ rpc.n >= 2
    /\ rpc.req # Nil
    /\ rpc.req.method = "tools/call"
    /\ rpc.req.params.kind = "object"
    /\ ~rpc.before
    /\ rpc.resp.error.nil = FALSE
    /\ rpc.resp.error.code = ErrorInternalError

\* C36: once a callback request that carries a code has reached the server,
\* or the context has been cancelled, startLocalServer returns; and a
\* handler that is blocked on its send does not stay blocked for ever.
C36_StartLocalServerTerminates ==
    /\ (cb.done \/ \E h \in Callbacks : cb.h[h].pc # "none" /\ cb.h[h].code # "")
          ~> (cb.main = "returned")
    /\ \A h \in Callbacks : Blocked(h) ~> ~Blocked(h)

\* C34: the interval that the n-th NextBackOff of a Wait call's ticker loads
\* is 100ms doubled n-1 times and capped at 10s: every Wait call starts from
\* the initial interval and doubles from there.
C34_IntervalsDouble ==
    \A p \in Procs :
        tk[p].st = "nb_write" =>
            \E k \in 0..7 : /\ k = Min(tk[p].n - 1, 7)
                            /\ tk[p].rd = Min(InitialInterval * 2^k, MaxInterval)
====
